---- MODULE Spec2Model ----
(***************************************************************************)
(* Model of the expense tracker backend: the token codec (create_jwt,      *)
(* decode_jwt), the AuthUser request extractor (the Auth Gate) and the      *)
(* category / expense / summary handlers over the relational store.         *)
(*                                                                          *)
(* The frontend (App, Auth, Dashboard and the api module) is modelled as    *)
(* the page in the browser.                                                 *)
(*                                                                          *)
(* The specifications of the module share its variables:                    *)
(*   SpecAuth      the token codec and the gate as functions of             *)
(*                 (token or header, secret, clock);                        *)
(*   Spec          the HTTP server: concurrent requests, each one passing   *)
(*                 the gate and then running its handler one SQL statement  *)
(*                 at a time against the store;                             *)
(*   SpecUsers     register, login and get_current_user under a clock;      *)
(*   SpecPassword  hash_password and verify_password;                       *)
(*   SpecPool      the connection pool;                                     *)
(*   SpecQuery     the read paths over the rows a store can hold;           *)
(*   SpecRaces     the writers of categories, expenses and users,           *)
(*                 interleaved;                                             *)
(*   SpecFrontend  the page: its handlers and the tasks they spawn.         *)
(***************************************************************************)
EXTENDS Integers, Sequences, FiniteSets, TLC

VARIABLES
    now,        \* the wall clock, Utc::now().timestamp(), in seconds
    held,       \* the token the client holds: the last one create_jwt returned
    last,       \* the most recent evaluation of decode_jwt or of the gate
    envSecret,  \* the JWT_SECRET variable of the process environment
    categories, \* rows of table categories
    expenses,   \* rows of table expenses
    nextCatId,  \* the next identifier the store gives to a new category
    slots,      \* the requests in flight, one per connection
    reply,      \* the request that the last step answered, with its response
    issued,     \* number of requests received so far
    users,      \* rows of table users
    nextUserId, \* the next identifier the store gives to a new user
    pw,         \* the most recent evaluation of hash_password or verify_password
    pool,       \* the connection pool: what each request holds or waits for
    ui          \* the browser: local storage, the signals of App, Auth and
                \* Dashboard, and the tasks they spawned

authVars == <<now, held, last, envSecret>>
storeVars == <<categories, expenses, nextCatId>>
accountVars == <<users, nextUserId>>
unitVars == <<pw, pool, ui>>
serverVars == <<categories, expenses, nextCatId, slots, reply, issued, users, nextUserId>>
vars == <<now, held, last, envSecret, categories, expenses, nextCatId, slots, reply, issued,
          users, nextUserId, pw, pool, ui>>

\* ------------------------------------------------------------------------
\* Bounds
\* ------------------------------------------------------------------------
\* create_jwt is called at instants 0..MaxMintTime
MaxMintTime == 1
\* validity windows 1..MaxHours (jwt_expiration_hours)
MaxHours == 1
\* the server receives at most MaxRequests requests
MaxRequests == 2
\* the effect of Dashboard runs at most MaxReloads times
MaxReloads == 3

\* ------------------------------------------------------------------------
\* Program constants
\* ------------------------------------------------------------------------
\* chrono::Duration::hours(h) is h * 3600 seconds
SecondsPerHour == 3600
\* jsonwebtoken's Validation::default(): leeway of 60 seconds on exp
Leeway == 60

NoUser == 0
UserIds == {1, 2}
NoSecret == "<unset>"
Secrets == {"k1", "k2"}

\* Uuid::to_string: the hyphenated text of the identifier
UuidToString(id) == <<"uuid", id>>

\* Uuid::parse_str: the identifier of a well-formed text, NoUser otherwise
ParseUuid(s) == IF s[1] = "uuid" THEN s[2] ELSE NoUser

\* subject strings that a claims payload can carry
SubStrings == {UuidToString(u) : u \in UserIds} \cup {<<"text", 0>>}

Algs == {"HS256", "HS384"}

\* instants the clock can show: the minting instants and, around each
\* possible expiry, the instants that tell the comparisons apart
MintTimes == 0..MaxMintTime
ExpValues == {t + h * SecondsPerHour : t \in MintTimes, h \in 1..MaxHours}
Instants == MintTimes \cup
    {e + d : e \in ExpValues, d \in {-1, 0, Leeway, Leeway + 1}}

\* ------------------------------------------------------------------------
\* Token codec
\* ------------------------------------------------------------------------
\* HMAC over the header and payload segments under a key: an ideal MAC,
\* equal only for equal key and equal signed content
Sign(key, alg, sub, exp) == [key |-> key, alg |-> alg, sub |-> sub, exp |-> exp]

\* Claims::new: sub = user_id.to_string(), exp = now + hours
Claims_new(user_id, expiration_hours, t) ==
    [sub |-> UuidToString(user_id), exp |-> t + expiration_hours * SecondsPerHour]

\* a three-segment token: header.payload.signature
Token(alg, sub, exp, sig) ==
    [segments |-> 3, alg |-> alg, sub |-> sub, exp |-> exp, sig |-> sig]

\* create_jwt: encode(Header::default() (HS256), claims, secret)
create_jwt(user_id, secret, expiration_hours, t) ==
    LET claims == Claims_new(user_id, expiration_hours, t)
    IN  Token("HS256", claims.sub, claims.exp,
              Sign(secret, "HS256", claims.sub, claims.exp))

Ok(claims) == [ok |-> TRUE, err |-> "", sub |-> claims.sub, exp |-> claims.exp]
Err(kind) == [ok |-> FALSE, err |-> kind, sub |-> <<"text", 0>>, exp |-> 0]

\* the signature segment is the MAC of the token's own header and payload
\* under the key
SignatureVerifies(token, secret) ==
    token.sig = Sign(secret, token.alg, token.sub, token.exp)

\* a plausible slip: expiry tested before the signature
decode_jwt_ExpiryFirst(token, secret, t) ==
    IF token.segments # 3 THEN Err("InvalidToken")
    ELSE IF token.alg # "HS256" THEN Err("InvalidAlgorithm")
    ELSE IF token.exp < t - Leeway THEN Err("ExpiredSignature")
    ELSE IF ~SignatureVerifies(token, secret) THEN Err("InvalidSignature")
    ELSE Ok([sub |-> token.sub, exp |-> token.exp])

\* decode_jwt: decode::<Claims>(token, key, Validation::default()).
\* Validation::default() accepts the one algorithm HS256, validates exp
\* with a leeway of 60 seconds (expired when exp < now - leeway) and checks
\* in the order: structure, algorithm, signature, expiry.
decode_jwt(token, secret, t) ==
    IF token.segments # 3 THEN Err("InvalidToken")
    ELSE IF token.alg # "HS256" THEN Err("InvalidAlgorithm")
    ELSE IF ~SignatureVerifies(token, secret) THEN Err("InvalidSignature")
    ELSE IF token.exp < t - Leeway THEN Err("ExpiredSignature")
    ELSE Ok([sub |-> token.sub, exp |-> token.exp])

\* ------------------------------------------------------------------------
\* Auth Gate: AuthUser::from_request_parts
\* ------------------------------------------------------------------------
NoHeader == [scheme |-> "none",
             token |-> [segments |-> 0, alg |-> "", sub |-> <<"text", 0>>, exp |-> 0,
                        sig |-> Sign("", "", <<"text", 0>>, 0)]]
BasicHeader == [NoHeader EXCEPT !.scheme = "Basic"]
Bearer(token) == [scheme |-> "Bearer", token |-> token]

Authenticated(user_id) == [ok |-> TRUE, user_id |-> user_id, status |-> 200, message |-> ""]
Rejected(status, message) == [ok |-> FALSE, user_id |-> NoUser, status |-> status, message |-> message]

\* a plausible slip: the expired case reported with a message of its own
TokenRejection_Leaky(kind) ==
    IF kind = "ExpiredSignature" THEN Rejected(401, "Token expired")
    ELSE Rejected(401, "Invalid or expired token")

\* decode_jwt(..).map_err(|_| (UNAUTHORIZED, "Invalid or expired token"))
TokenRejection(kind) == Rejected(401, "Invalid or expired token")

\* a plausible slip: the secret looked up before the header is extracted
from_request_parts_SecretFirst(header, secret, t) ==
    IF secret = NoSecret THEN Rejected(500, "JWT secret not configured")
    ELSE IF header.scheme # "Bearer" THEN Rejected(401, "Missing authorization header")
    ELSE LET d == decode_jwt(header.token, secret, t) IN
         IF ~d.ok THEN TokenRejection(d.err)
         ELSE IF ParseUuid(d.sub) = NoUser THEN Rejected(401, "Invalid user ID in token")
         ELSE Authenticated(ParseUuid(d.sub))

\* a plausible slip: a gate that counts the requests it has seen and
\* accepts a token on the first one only
from_request_parts_Counting(header, secret, t) ==
    IF header.scheme # "Bearer" THEN Rejected(401, "Missing authorization header")
    ELSE IF secret = NoSecret THEN Rejected(500, "JWT secret not configured")
    ELSE LET d == decode_jwt(header.token, secret, t) IN
         IF ~d.ok \/ issued > 0 THEN TokenRejection("InvalidToken")
         ELSE IF ParseUuid(d.sub) = NoUser THEN Rejected(401, "Invalid user ID in token")
         ELSE Authenticated(ParseUuid(d.sub))

\* from_request_parts: header, secret, decode, subject, in this order
from_request_parts(header, secret, t) ==
    IF header.scheme # "Bearer" THEN Rejected(401, "Missing authorization header")
    ELSE IF secret = NoSecret THEN Rejected(500, "JWT secret not configured")
    ELSE LET d == decode_jwt(header.token, secret, t) IN
         IF ~d.ok THEN TokenRejection(d.err)
         ELSE IF ParseUuid(d.sub) = NoUser THEN Rejected(401, "Invalid user ID in token")
         ELSE Authenticated(ParseUuid(d.sub))

\* ------------------------------------------------------------------------
\* Tokens a client can present
\* ------------------------------------------------------------------------
\* what a holder of a minted token can build from it without the key:
\* the token itself, the token with one field of its header or payload
\* rewritten, and the token cut to two segments
Tampered(tk) ==
    {[tk EXCEPT !.sub = s] : s \in SubStrings}
    \cup {[tk EXCEPT !.exp = tk.exp + SecondsPerHour]}
    \cup {[tk EXCEPT !.alg = a] : a \in Algs}
    \cup {[tk EXCEPT !.segments = 2]}

\* a token with the same claims signed afresh under key k, with any subject
\* text: the work of another party that holds k
Resigned(tk) ==
    {Token(tk.alg, s, tk.exp, Sign(k, tk.alg, s, tk.exp)) : s \in SubStrings, k \in Secrets}

NoToken == [segments |-> 0, alg |-> "", sub |-> <<"text", 0>>, exp |-> 0,
            sig |-> Sign("", "", <<"text", 0>>, 0)]

Presentable == IF held = NoToken THEN {} ELSE Tampered(held) \cup Resigned(held)

NoEval == [op |-> "none", token |-> NoHeader.token, header |-> NoHeader,
           secret |-> NoSecret, at |-> 0, decoded |-> Err(""), outcome |-> Rejected(0, "")]

\* ------------------------------------------------------------------------
\* The relational store
\* ------------------------------------------------------------------------
None == <<>>
Some(v) == <<v>>
IsSome(o) == Len(o) = 1
Unwrap(o) == o[1]

Date(y, m, d) == [year |-> y, month |-> m, day |-> d]

\* a >= b on NaiveDate
DateGE(a, b) ==
    \/ a.year > b.year
    \/ a.year = b.year /\ a.month > b.month
    \/ a.year = b.year /\ a.month = b.month /\ a.day >= b.day

\* chrono::Utc::now().naive_utc().date(): the clock of the model stays
\* within one day
Today(t) == Date(2024, 2, 10)

\* TO_CHAR(expense_date, 'Month')
MonthName(m) == IF m = 1 THEN "January" ELSE IF m = 2 THEN "February" ELSE "March"

\* the identifiers requests name: the two categories of the initial rows
\* and the first one the store gives out afterwards
CatIds == {1, 2, 3}
ExpenseIds == {1, 2}

CategoryRow(id, user_id, name, color, icon) ==
    [id |-> id, user_id |-> user_id, name |-> name, color |-> color, icon |-> icon]

\* created_at and updated_at are instants of the clock; rows written before
\* the server started carry instants before 0
ExpenseRow(id, user_id, category_id, amount, description, expense_date, created_at) ==
    [id |-> id, user_id |-> user_id, category_id |-> category_id, amount |-> amount,
     description |-> description, expense_date |-> expense_date,
     created_at |-> created_at, updated_at |-> created_at]

\* the rows the database holds when the server connects to it: user 1 has
\* a category without expenses, user 2 a category with one expense
InitialCategories ==
    {CategoryRow(1, 1, "Food", None, None), CategoryRow(2, 2, "Food", None, None)}
InitialExpenses ==
    {ExpenseRow(1, 2, 2, 500, "tea", Date(2024, 2, 3), -3)}

\* str::replace("'", "''"), on the texts the clients send: a text with a
\* quote in it has the quote doubled
EscapeQuotes(text) == IF text = "o'k" THEN "o''k" ELSE text

\* format!("column = '{}'", escaped) as the store reads it: within the
\* quotes of a string literal, two quotes stand for one
StringLiteral(escaped) == IF escaped = "o''k" THEN "o'k" ELSE escaped

\* amounts are in hundredths; Decimal::try_from(f64) fails beyond the
\* range of Decimal
HugeAmount == 1000000
DecimalTryFrom(amount) == IF amount >= HugeAmount THEN None ELSE Some(amount)

RECURSIVE SumAmounts(_)
SumAmounts(rows) ==
    IF rows = {} THEN 0
    ELSE LET e == CHOOSE x \in rows : TRUE IN e.amount + SumAmounts(rows \ {e})

\* ------------------------------------------------------------------------
\* Password codec
\* ------------------------------------------------------------------------
\* salts SaltString::generate can draw
MaxSalt == 3
SaltValues == 1..MaxSalt

Passwords == {"longenough1", "wrongpass99", "Longenough1", "longenough", "short", ""}

\* the Argon2id digest of a password under a salt, as an ideal hash: two
\* digests are equal only for the same password and the same salt
Argon2(password, salt) == <<password, salt>>

\* a stored hash: a PHC string ($alg$params$salt$digest) or some other text
Phc(alg, salt, digest) == [phc |-> TRUE, alg |-> alg, salt |-> salt, digest |-> digest]
NotPhc == [phc |-> FALSE, alg |-> "", salt |-> 0, digest |-> <<"", 0>>]

PwOk(value) == [ok |-> TRUE, kind |-> "", msg |-> "", value |-> value]
PwErr(kind, msg) == [ok |-> FALSE, kind |-> kind, msg |-> msg, value |-> NotPhc]

\* auth::hash_password, with the salt the generator drew
hash_password(password, salt) == PwOk(Phc("argon2id", salt, Argon2(password, salt)))

\* a plausible slip: the digest compared without the password's own salt
verify_password_KnownSalt(password, password_hash) ==
    IF ~password_hash.phc THEN PwErr("PasswordHash", "")
    ELSE IF password_hash.alg = "argon2id" /\ password_hash.digest[2] = password_hash.salt
    THEN PwOk(NotPhc)
    ELSE PwErr("Authentication", "Invalid credentials")

\* auth::verify_password: parse the stored hash, then recompute the digest
\* with the stored salt and compare
verify_password(password, password_hash) ==
    IF ~password_hash.phc THEN PwErr("PasswordHash", "")
    ELSE IF password_hash.alg = "argon2id"
            /\ Argon2(password, password_hash.salt) = password_hash.digest
    THEN PwOk(NotPhc)
    ELSE PwErr("Authentication", "Invalid credentials")

\* stored hashes that hash_password did not write: text that is no PHC
\* string, and a PHC string of another algorithm
ForeignHashes == {NotPhc, Phc("scrypt", 1, Argon2("longenough1", 1))}

NoCheck == [op |-> "none", password |-> "", stored |-> NotPhc, hashed |-> FALSE,
            given |-> "", result |-> PwOk(NotPhc)]

\* ------------------------------------------------------------------------
\* Connection pool
\* ------------------------------------------------------------------------
\* PgPoolOptions::max_connections
PoolMax == 5
\* PgPoolOptions::acquire_timeout, in seconds
AcquireTimeout == 3
\* requests in flight at the same time
MaxClients == 6

\* where a request stands with the pool: it waits for a connection (since
\* waited seconds), or it runs a statement on one; ran tells whether it
\* has already run a statement
Waits(ran, waited) == [pc |-> "waiting", ran |-> ran, waited |-> waited]
Runs(ran) == [pc |-> "running", ran |-> ran, waited |-> 0]
Stands == {Waits(ran, w) : ran \in BOOLEAN, w \in 0..AcquireTimeout}
          \cup {Runs(ran) : ran \in BOOLEAN}

NoAnswer == [status |-> 0, message |-> "", ran |-> FALSE, waited |-> 0]
\* the number of requests in each stand, and the last response sent
IdlePool == [req |-> [k \in Stands |-> 0], answer |-> NoAnswer]

\* the filters of Dashboard when it is mounted: none selected
NoFilters == [start_date |-> None, end_date |-> None, category_id |-> None]
\* the browser before the page is opened: nothing in local storage; the
\* signals of App, of Auth (is_login, loading, error) and of Dashboard
\* (loading, error, the filters, the expenses shown) at the values they are
\* created with; no request in flight
NoPage ==
    [token |-> None, is_authenticated |-> FALSE,
     is_login |-> TRUE, auth_loading |-> FALSE, auth_error |-> FALSE, auth_request |-> "none",
     loading |-> TRUE, error |-> FALSE, filters |-> NoFilters, shown |-> {},
     effects |-> 0, reloads |-> <<>>, deletes |-> <<>>]

\* ------------------------------------------------------------------------
\* Errors and responses
\* ------------------------------------------------------------------------
Response(status, message) ==
    [status |-> status, message |-> message, categories |-> {}, expenses |-> {}, body |-> {},
     token |-> NoToken, rows |-> <<>>]

\* a plausible slip: the store's error text sent to the caller
into_response_Leaky(kind, msg) ==
    IF kind = "Database" THEN Response(500, msg)
    ELSE IF kind = "Authentication" THEN Response(401, msg)
    ELSE IF kind = "NotFound" THEN Response(404, msg)
    ELSE IF kind = "Validation" THEN Response(400, msg)
    ELSE Response(500, "Internal server error")

\* AppError::into_response
into_response(kind, msg) ==
    IF kind = "Database" THEN Response(500, "Database error occurred")
    ELSE IF kind = "Migration" THEN Response(500, "Database migration error")
    ELSE IF kind = "Authentication" THEN Response(401, msg)
    ELSE IF kind = "Unauthorized" THEN Response(401, "Unauthorized")
    ELSE IF kind = "NotFound" THEN Response(404, msg)
    ELSE IF kind = "Validation" THEN Response(400, msg)
    ELSE IF kind = "Internal" THEN Response(500, "Internal server error")
    ELSE IF kind = "Jwt" THEN Response(401, "Invalid token")
    ELSE Response(500, "Authentication processing error")

\* ------------------------------------------------------------------------
\* Payloads
\* ------------------------------------------------------------------------
LongName == "<101 characters>"

Payload(name, color, icon, category_id, amount, description, expense_date) ==
    [name |-> name, color |-> color, icon |-> icon, category_id |-> category_id,
     amount |-> amount, description |-> description, expense_date |-> expense_date,
     email |-> None, password |-> None, full_name |-> None,
     start_date |-> None, end_date |-> None]

NoPayload == Payload(None, None, None, None, None, None, None)

\* CreateCategory: name has 1 to 100 characters
CreateCategory_validate(p) == Unwrap(p.name) \notin {"", LongName}

\* UpdateCategory: name, when present, has 1 to 100 characters
UpdateCategory_validate(p) == IsSome(p.name) => Unwrap(p.name) \notin {"", LongName}

\* CreateExpense: amount >= 0.01, description of at least one character
CreateExpense_validate(p) == Unwrap(p.amount) >= 1 /\ Unwrap(p.description) # ""

\* a plausible slip: the range rule left off the optional amount
UpdateExpense_validate_NoRange(p) == TRUE

\* UpdateExpense: amount, when present, >= 0.01; description unconstrained
UpdateExpense_validate(p) == IsSome(p.amount) => Unwrap(p.amount) >= 1

CreateCategoryPayloads ==
    {[NoPayload EXCEPT !.name = Some(n)] : n \in {"Food", "Rent", ""}}

UpdateCategoryPayloads ==
    {NoPayload, [NoPayload EXCEPT !.color = Some("#fff")],
     [NoPayload EXCEPT !.name = Some("Rent"), !.icon = Some("o'k")]}
    \cup {[NoPayload EXCEPT !.name = Some(n)] : n \in {"Food", ""}}

CreateExpensePayloads ==
    {[NoPayload EXCEPT !.category_id = Some(c), !.amount = Some(700),
                       !.description = Some("bus"), !.expense_date = Some(Date(2024, 2, 5))]
        : c \in CatIds}
    \cup {[NoPayload EXCEPT !.category_id = Some(1), !.amount = Some(a),
                            !.description = Some(d), !.expense_date = Some(Date(2024, 2, 5))]
            : a \in {-100, 0, 700, HugeAmount}, d \in {"", "bus"}}

UpdateExpensePayloads ==
    {NoPayload, [NoPayload EXCEPT !.expense_date = Some(Date(2024, 1, 20))]}
    \cup {[NoPayload EXCEPT !.category_id = Some(c)] : c \in CatIds}
    \cup {[NoPayload EXCEPT !.amount = Some(a)] : a \in {-100, 0, 700, HugeAmount}}
    \cup {[NoPayload EXCEPT !.description = Some(d)] : d \in {"", "o'k"}}

\* ------------------------------------------------------------------------
\* Requests
\* ------------------------------------------------------------------------
Slots == {1, 2}

\* Config::from_env: the signing secret and the validity window in hours
ConfigSecret == "k1"
ConfigHours == 1

UserRow(id, email, password_hash, full_name) ==
    [id |-> id, email |-> email, password_hash |-> password_hash, full_name |-> full_name]

\* rows of table users: two registered accounts
UserRows ==
    {UserRow(1, "a@b.com", hash_password("longenough1", 1).value, "A B"),
     UserRow(2, "c@d.com", hash_password("wrongpass99", 2).value, "C D")}

\* a plausible slip: the row serialized as it is
UserResponse_WholeRow(user) == user

\* From<User> for UserResponse: the row without its password hash
UserResponse(user) == [id |-> user.id, email |-> user.email, full_name |-> user.full_name]

\* validator's email rule, on the addresses the clients send
EmailOk(email) == email # "not-an-email"

\* CreateUser: email format, password of 8 characters or more, a full name
CreateUser_validate(p) ==
    /\ EmailOk(Unwrap(p.email))
    /\ Unwrap(p.password) \notin {"short", ""}
    /\ Unwrap(p.full_name) # ""

\* LoginRequest: email format
LoginRequest_validate(p) == EmailOk(Unwrap(p.email))

RegisterPayloads ==
    {[NoPayload EXCEPT !.email = Some(e), !.password = Some("longenough1"),
                       !.full_name = Some("E F")] : e \in {"e@f.com", "a@b.com", "not-an-email"}}
    \cup {[NoPayload EXCEPT !.email = Some("e@f.com"), !.password = Some("short"),
                            !.full_name = Some("E F")]}

LoginPayloads ==
    {[NoPayload EXCEPT !.email = Some(e), !.password = Some(w)] :
        e \in {"a@b.com", "e@f.com"}, w \in {"longenough1", "wrongpass99"}}
    \cup {[NoPayload EXCEPT !.email = Some("not-an-email"), !.password = Some("longenough1")]}

\* create_router: the routes, by handler
Routes == {"health", "register", "login", "get_current_user",
           "create_category", "list_categories", "get_category", "update_category",
           "delete_category",
           "create_expense", "list_expenses", "get_expense", "update_expense",
           "delete_expense",
           "get_monthly_summary", "get_category_summary"}

\* a plausible slip: a handler declared without the AuthUser extractor
RequiresAuth_DeleteOpen(route) ==
    route \notin {"health", "register", "login", "delete_category"}

\* the handlers that take an AuthUser argument
RequiresAuth(route) == route \notin {"health", "register", "login"}

\* the Authorization headers clients send: none, the token the server
\* minted for a user, a token for user 2 signed with another key
ClientHeaders ==
    {NoHeader}
    \cup {Bearer(create_jwt(u, ConfigSecret, ConfigHours, 0)) : u \in UserIds}
    \cup {Bearer(create_jwt(2, "k2", ConfigHours, 0))}

Input(id, payload) == [id |-> id, payload |-> payload]

\* path identifier and body, by route
CategoryIdInputs == {Input(c, NoPayload) : c \in CatIds}
CreateCategoryInputs == {Input(0, p) : p \in CreateCategoryPayloads}
UpdateCategoryInputs == {Input(c, p) : c \in CatIds, p \in UpdateCategoryPayloads}
ExpenseIdInputs == {Input(e, NoPayload) : e \in ExpenseIds}
CreateExpenseInputs == {Input(0, p) : p \in CreateExpensePayloads}
UpdateExpenseInputs == {Input(e, p) : e \in ExpenseIds, p \in UpdateExpensePayloads}

Inputs(route) ==
    IF route \in {"get_category", "delete_category"} THEN CategoryIdInputs
    ELSE IF route = "create_category" THEN CreateCategoryInputs
    ELSE IF route = "update_category" THEN UpdateCategoryInputs
    ELSE IF route \in {"get_expense", "delete_expense"} THEN ExpenseIdInputs
    ELSE IF route = "create_expense" THEN CreateExpenseInputs
    ELSE IF route = "update_expense" THEN UpdateExpenseInputs
    ELSE {Input(0, NoPayload)}

\* the inputs that tell requests with header h apart: the path and the body
\* of a request the gate turns down are never extracted
Sent(route, h) ==
    IF RequiresAuth(route) /\ ~from_request_parts(h, envSecret, now).ok
    THEN {Input(0, NoPayload)}
    ELSE Inputs(route)

NoResponse == Response(0, "")

IdleSlot == [pc |-> "idle", route |-> "health", header |-> NoHeader,
             gate |-> Rejected(0, ""), subject |-> NoUser,
             id |-> 0, payload |-> NoPayload, resp |-> NoResponse, touched |-> FALSE,
             at |-> 0]

\* the connection on which the next request arrives: the first free one
FreeSlot ==
    {r \in Slots : /\ issued < MaxRequests
                   /\ slots[r].pc = "idle"
                   /\ \A q \in Slots : q < r => slots[q].pc # "idle"}

\* a request arrives on connection r
Arrives(r) ==
    /\ r \in FreeSlot
    /\ issued' = issued + 1

\* the extractors of a handler, AuthUser first: the request as the handler
\* body sees it or, when the gate rejects, the finished request whose
\* response is the rejection (the path and the body are then not looked at)
Extract(route, header, input) ==
    LET gate == from_request_parts(header, envSecret, now) IN
    IF RequiresAuth(route) /\ ~gate.ok
    THEN [IdleSlot EXCEPT !.pc = "done", !.route = route, !.header = header, !.gate = gate,
                          !.at = now,
                          !.resp = Response(gate.status, gate.message)]
    ELSE [IdleSlot EXCEPT !.pc = route, !.route = route, !.header = header, !.gate = gate,
                          !.at = now,
                          !.subject = gate.user_id,
                          !.id = input.id, !.payload = input.payload]

\* the request rq of connection r ends with response resp before any
\* statement was sent to the store
Finish(r, rq, resp) ==
    /\ reply' = [rq EXCEPT !.pc = "done", !.resp = resp]
    /\ slots' = [slots EXCEPT ![r] = IdleSlot]

\* the request rq of connection r ends with response resp after a statement
FinishSql(r, rq, resp) ==
    /\ reply' = [rq EXCEPT !.pc = "done", !.resp = resp, !.touched = TRUE]
    /\ slots' = [slots EXCEPT ![r] = IdleSlot]

\* the request rq of connection r awaits its next statement
Goto(r, rq, pc) ==
    /\ slots' = [slots EXCEPT ![r] = [rq EXCEPT !.pc = pc, !.touched = TRUE]]
    /\ reply' = IdleSlot

\* the gate turned the request down
Turned(rq) == rq.pc = "done"

\* GET /health
health(r, h) ==
    /\ Arrives(r)
    /\ LET rq == Extract("health", h, Input(0, NoPayload)) IN
       Finish(r, rq, Response(200, "OK"))
    /\ UNCHANGED <<storeVars, authVars, accountVars, unitVars>>

\* users::get_current_user
get_current_user(r, h) ==
    /\ Arrives(r)
    /\ LET rq == Extract("get_current_user", h, Input(0, NoPayload))
           found == {u \in users : u.id = rq.subject}
       IN  IF Turned(rq) THEN Finish(r, rq, rq.resp)
           ELSE IF found = {} THEN FinishSql(r, rq, into_response("NotFound", "User not found"))
           ELSE FinishSql(r, rq, [Response(200, "") EXCEPT
                                    !.body = {UserResponse(u) : u \in found}])
    /\ UNCHANGED <<storeVars, authVars, accountVars, unitVars>>

\* the request of a route that takes no AuthUser argument
Public(route, input) ==
    [IdleSlot EXCEPT !.pc = route, !.route = route, !.payload = input.payload, !.at = now]

\* the AuthResponse of register and login: the token and the user
AuthResponse(status, token, user) ==
    [Response(status, "") EXCEPT !.token = token, !.body = {UserResponse(user)}]

\* the client keeps the token it had or the one it just received
Keeps(token) == held' \in {held, token}

\* users::register: validation and the email pre-check
register(r, input) ==
    /\ Arrives(r)
    /\ LET rq == Public("register", input) IN
       IF ~CreateUser_validate(rq.payload)
       THEN Finish(r, rq, into_response("Validation",
                IF ~EmailOk(Unwrap(rq.payload.email)) THEN "Invalid email address"
                ELSE "Password must be at least 8 characters"))
       ELSE IF \E u \in users : u.email = Unwrap(rq.payload.email)
       THEN FinishSql(r, rq, into_response("Validation", "Email already registered"))
       ELSE Goto(r, rq, "register_insert")
    /\ UNCHANGED <<storeVars, authVars, accountVars, unitVars>>

\* users::register: hash_password, the INSERT (email is UNIQUE) and create_jwt
register_insert(r, salt) ==
    /\ slots[r].pc = "register_insert"
    /\ LET rq == slots[r]
           hashed == hash_password(Unwrap(rq.payload.password), salt)
           user == UserRow(nextUserId, Unwrap(rq.payload.email), hashed.value,
                           Unwrap(rq.payload.full_name))
           token == create_jwt(user.id, ConfigSecret, ConfigHours, now)
       IN  IF \E u \in users : u.email = user.email
           THEN /\ FinishSql(r, rq, into_response("Database",
                        "duplicate key value violates unique constraint users_email_key"))
                /\ UNCHANGED <<accountVars, held>>
           ELSE /\ users' = users \cup {user}
                /\ nextUserId' = nextUserId + 1
                /\ FinishSql(r, rq, AuthResponse(201, token, user))
                /\ Keeps(token)
    /\ UNCHANGED <<storeVars, issued, now, last, envSecret, unitVars>>

\* a plausible slip: the missing account reported as such
NoSuchUser_Telling == into_response("NotFound", "User not found")

\* login's answer when no row has the email
NoSuchUser == into_response("Authentication", "Invalid credentials")

\* users::login
login(r, input) ==
    /\ Arrives(r)
    /\ LET rq == Public("login", input)
           found == {u \in users : u.email = Unwrap(rq.payload.email)}
       IN  IF ~LoginRequest_validate(rq.payload)
           THEN Finish(r, rq, into_response("Validation", "Invalid email address"))
                /\ UNCHANGED held
           ELSE IF found = {}
           THEN FinishSql(r, rq, NoSuchUser)
                /\ UNCHANGED held
           ELSE LET user == CHOOSE u \in found : TRUE
                    verified == verify_password(Unwrap(rq.payload.password), user.password_hash)
                    token == create_jwt(user.id, ConfigSecret, ConfigHours, now)
                IN  IF ~verified.ok
                    THEN FinishSql(r, rq, into_response(verified.kind, verified.msg))
                         /\ UNCHANGED held
                    ELSE FinishSql(r, rq, AuthResponse(200, token, user)) /\ Keeps(token)
    /\ UNCHANGED <<storeVars, now, last, envSecret, accountVars, unitVars>>

\* ------------------------------------------------------------------------
\* Category handlers
\* ------------------------------------------------------------------------
\* a plausible slip: the name looked up among the categories of all users
CategoryNameExists_AnyUser(user_id, name) ==
    \E c \in categories : c.name = name

\* SELECT EXISTS(SELECT 1 FROM categories WHERE user_id = $1 AND name = $2)
CategoryNameExists(user_id, name) ==
    \E c \in categories : c.user_id = user_id /\ c.name = name

\* a plausible slip: the category looked up by identifier alone
CategoryExists_AnyOwner(id, user_id) ==
    \E c \in categories : c.id = id

\* SELECT EXISTS(SELECT 1 FROM categories WHERE id = $1 AND user_id = $2)
CategoryExists(id, user_id) ==
    \E c \in categories : c.id = id /\ c.user_id = user_id

\* ... WHERE user_id = $1 AND name = $2 AND id != $3
CategoryNameExistsElsewhere(user_id, name, id) ==
    \E c \in categories : c.user_id = user_id /\ c.name = name /\ c.id # id

\* a plausible slip: the row selected by identifier alone
SelectCategory_AnyOwner(id, user_id) == {c \in categories : c.id = id}

\* SELECT * FROM categories WHERE id = $1 AND user_id = $2
SelectCategory(id, user_id) == {c \in categories : c.id = id /\ c.user_id = user_id}

\* SELECT EXISTS(SELECT 1 FROM expenses WHERE category_id = $1)
CategoryHasExpenses(id) == \E e \in expenses : e.category_id = id

\* a plausible slip: a schema without the foreign key
Referenced_NoConstraint(c) == FALSE

\* expenses.category_id REFERENCES categories(id): an expense row refers
\* to the category row
Referenced(c) == \E e \in expenses : e.category_id = c.id

\* a plausible slip: a schema without the constraint
UniqueNames_NoConstraint(rows) == TRUE

\* UNIQUE(user_id, name) on a set of category rows
UniqueNames(rows) ==
    \A c1 \in rows, c2 \in rows : (c1.user_id = c2.user_id /\ c1.name = c2.name) => c1.id = c2.id

\* create_category: the extractors, validation and the name pre-check
create_category(r, h, input) ==
    /\ Arrives(r)
    /\ LET rq == Extract("create_category", h, input) IN
       IF Turned(rq) THEN Finish(r, rq, rq.resp)
       ELSE IF ~CreateCategory_validate(rq.payload)
       THEN Finish(r, rq, into_response("Validation", "Category name must be 1-100 characters"))
       ELSE IF CategoryNameExists(rq.subject, Unwrap(rq.payload.name))
       THEN FinishSql(r, rq, into_response("Validation", "Category name already exists"))
       ELSE Goto(r, rq, "create_category_insert")
    /\ UNCHANGED <<storeVars, authVars, accountVars, unitVars>>

\* create_category: INSERT INTO categories ... RETURNING *
create_category_insert(r) ==
    /\ slots[r].pc = "create_category_insert"
    /\ LET rq == slots[r]
           row == CategoryRow(nextCatId, rq.subject, Unwrap(rq.payload.name),
                              rq.payload.color, rq.payload.icon)
       IN  IF ~UniqueNames(categories \cup {row})
           THEN /\ FinishSql(r, rq, into_response("Database",
                    "duplicate key value violates unique constraint categories_user_id_name_key"))
                /\ UNCHANGED storeVars
           ELSE /\ categories' = categories \cup {row}
                /\ nextCatId' = nextCatId + 1
                /\ FinishSql(r, rq, [Response(201, "") EXCEPT !.categories = {row}])
                /\ UNCHANGED expenses
    /\ UNCHANGED <<issued, authVars, accountVars, unitVars>>

\* list_categories: SELECT * FROM categories WHERE user_id = $1 ORDER BY name
list_categories(r, h) ==
    /\ Arrives(r)
    /\ LET rq == Extract("list_categories", h, Input(0, NoPayload)) IN
       IF Turned(rq) THEN Finish(r, rq, rq.resp)
       ELSE FinishSql(r, rq, [Response(200, "") EXCEPT
                !.categories = {c \in categories : c.user_id = rq.subject}])
    /\ UNCHANGED <<storeVars, authVars, accountVars, unitVars>>

\* get_category
get_category(r, h, input) ==
    /\ Arrives(r)
    /\ LET rq == Extract("get_category", h, input)
           found == SelectCategory(rq.id, rq.subject)
       IN  IF Turned(rq) THEN Finish(r, rq, rq.resp)
           ELSE IF found = {}
           THEN FinishSql(r, rq, into_response("NotFound", "Category not found"))
           ELSE FinishSql(r, rq, [Response(200, "") EXCEPT !.categories = found])
    /\ UNCHANGED <<storeVars, authVars, accountVars, unitVars>>

\* update_category: the extractors, validation, the existence check and,
\* with no name in the payload, the test for an empty update
update_category(r, h, input) ==
    /\ Arrives(r)
    /\ LET rq == Extract("update_category", h, input) IN
       IF Turned(rq) THEN Finish(r, rq, rq.resp)
       ELSE IF ~UpdateCategory_validate(rq.payload)
       THEN Finish(r, rq, into_response("Validation", "Category name must be 1-100 characters"))
       ELSE IF ~CategoryExists(rq.id, rq.subject)
       THEN FinishSql(r, rq, into_response("NotFound", "Category not found"))
       ELSE IF IsSome(rq.payload.name)
       THEN Goto(r, rq, "update_category_name")
       ELSE IF ~IsSome(rq.payload.color) /\ ~IsSome(rq.payload.icon)
       THEN FinishSql(r, rq, into_response("Validation", "No fields to update"))
       ELSE Goto(r, rq, "update_category_update")
    /\ UNCHANGED <<storeVars, authVars, accountVars, unitVars>>

\* update_category: the name pre-check
update_category_name(r) ==
    /\ slots[r].pc = "update_category_name"
    /\ LET rq == slots[r] IN
       IF CategoryNameExistsElsewhere(rq.subject, Unwrap(rq.payload.name), rq.id)
       THEN FinishSql(r, rq, into_response("Validation", "Category name already exists"))
       ELSE Goto(r, rq, "update_category_update")
    /\ UNCHANGED <<storeVars, issued, authVars, accountVars, unitVars>>

\* a plausible slip: every column set, the absent ones to NULL
UpdatedCategory_AllColumns(c, p) ==
    [c EXCEPT !.name = IF IsSome(p.name) THEN Unwrap(p.name) ELSE @,
              !.color = p.color,
              !.icon = p.icon]

\* the row after SET of the fields present in the payload, each written
\* into the statement as a string literal
UpdatedCategory(c, p) ==
    [c EXCEPT !.name = IF IsSome(p.name)
                       THEN StringLiteral(EscapeQuotes(Unwrap(p.name))) ELSE @,
              !.color = IF IsSome(p.color)
                        THEN Some(StringLiteral(EscapeQuotes(Unwrap(p.color)))) ELSE @,
              !.icon = IF IsSome(p.icon)
                       THEN Some(StringLiteral(EscapeQuotes(Unwrap(p.icon)))) ELSE @]

\* UPDATE categories SET ... WHERE id = '<id>' AND user_id = '<user>'
UpdateCategoryRows(id, user_id, p) ==
    {IF c.id = id /\ c.user_id = user_id THEN UpdatedCategory(c, p) ELSE c : c \in categories}

\* update_category: the UPDATE statement, under UNIQUE(user_id, name)
update_category_update(r) ==
    /\ slots[r].pc = "update_category_update"
    /\ LET rq == slots[r]
           after == UpdateCategoryRows(rq.id, rq.subject, rq.payload)
       IN  IF ~UniqueNames(after)
           THEN /\ FinishSql(r, rq, into_response("Database",
                    "duplicate key value violates unique constraint categories_user_id_name_key"))
                /\ UNCHANGED storeVars
           ELSE /\ categories' = after
                /\ Goto(r, rq, "update_category_reread")
                /\ UNCHANGED <<expenses, nextCatId>>
    /\ UNCHANGED <<issued, authVars, accountVars, unitVars>>

\* update_category: SELECT * FROM categories WHERE id = $1, fetch_one
update_category_reread(r) ==
    /\ slots[r].pc = "update_category_reread"
    /\ LET rq == slots[r]
           found == {c \in categories : c.id = rq.id}
       IN  IF found = {} THEN FinishSql(r, rq, into_response("Database",
                    "no rows returned by a query that expected to return at least one row"))
           ELSE FinishSql(r, rq, [Response(200, "") EXCEPT !.categories = found])
    /\ UNCHANGED <<storeVars, issued, authVars, accountVars, unitVars>>

\* delete_category: the extractors and the test for expenses of the category
delete_category(r, h, input) ==
    /\ Arrives(r)
    /\ LET rq == Extract("delete_category", h, input) IN
       IF Turned(rq) THEN Finish(r, rq, rq.resp)
       ELSE IF CategoryHasExpenses(rq.id)
       THEN FinishSql(r, rq, into_response("Validation",
                                           "Cannot delete category with existing expenses"))
       ELSE Goto(r, rq, "delete_category_delete")
    /\ UNCHANGED <<storeVars, authVars, accountVars, unitVars>>

\* the rows of DELETE FROM categories WHERE id = $1 AND user_id = $2
DeleteCategoryRows(id, user_id) == {c \in categories : c.id = id /\ c.user_id = user_id}

\* delete_category: the DELETE statement; expenses.category_id REFERENCES
\* categories(id) refuses the delete of a category that has expenses
delete_category_delete(r) ==
    /\ slots[r].pc = "delete_category_delete"
    /\ LET rq == slots[r]
           gone == DeleteCategoryRows(rq.id, rq.subject)
       IN  IF \E c \in gone : Referenced(c)
           THEN /\ FinishSql(r, rq, into_response("Database",
                    "violates foreign key constraint"))
                /\ UNCHANGED storeVars
           ELSE IF gone = {}
           THEN /\ FinishSql(r, rq, into_response("NotFound", "Category not found"))
                /\ UNCHANGED storeVars
           ELSE /\ categories' = categories \ gone
                /\ FinishSql(r, rq, Response(204, ""))
                /\ UNCHANGED <<expenses, nextCatId>>
    /\ UNCHANGED <<issued, authVars, accountVars, unitVars>>

\* ------------------------------------------------------------------------
\* Expense handlers
\* ------------------------------------------------------------------------
\* SELECT EXISTS(SELECT 1 FROM expenses WHERE id = $1 AND user_id = $2)
ExpenseExists(id, user_id) ==
    \E e \in expenses : e.id = id /\ e.user_id = user_id

\* a plausible slip: the expense selected by identifier alone
SelectExpense_AnyOwner(id, user_id) == {e \in expenses : e.id = id}

\* ... FROM expenses ... WHERE expenses.id = $1 AND expenses.user_id = $2
SelectExpense(id, user_id) == {e \in expenses : e.id = id /\ e.user_id = user_id}

\* JOIN categories ON expenses.category_id = categories.id: the expense
\* rows that have a category row, and the category rows they join
Joined(rows) == {e \in rows : \E c \in categories : c.id = e.category_id}
JoinedCategories(rows) == {c \in categories : \E e \in rows : c.id = e.category_id}

\* the ExpenseWithCategory rows of a set of expense rows
WithCategory(rows) ==
    [Response(200, "") EXCEPT !.expenses = Joined(rows), !.categories = JoinedCategories(rows)]

\* create_expense: the extractors, validation, the category check and the
\* Decimal conversion
create_expense(r, h, input) ==
    /\ Arrives(r)
    /\ LET rq == Extract("create_expense", h, input) IN
       IF Turned(rq) THEN Finish(r, rq, rq.resp)
       ELSE IF ~CreateExpense_validate(rq.payload)
       THEN Finish(r, rq, into_response("Validation", "Invalid expense"))
       ELSE IF ~CategoryExists(Unwrap(rq.payload.category_id), rq.subject)
       THEN FinishSql(r, rq, into_response("NotFound", "Category not found"))
       ELSE IF ~IsSome(DecimalTryFrom(Unwrap(rq.payload.amount)))
       THEN FinishSql(r, rq, into_response("Validation", "Invalid amount"))
       ELSE Goto(r, rq, "create_expense_insert")
    /\ UNCHANGED <<storeVars, authVars, accountVars, unitVars>>

\* create_expense: INSERT INTO expenses ... RETURNING ... FROM expenses JOIN
\* categories ... The statement has a FROM clause after its RETURNING list,
\* which the INSERT grammar of PostgreSQL does not have: the server refuses
\* the statement, no row is inserted and the handler ends in a Database
\* error.
create_expense_insert(r) ==
    /\ slots[r].pc = "create_expense_insert"
    /\ FinishSql(r, slots[r], into_response("Database",
                    "syntax error at or near FROM"))
    /\ UNCHANGED <<storeVars, issued, authVars, accountVars, unitVars>>

\* one condition of a WHERE clause: a column compared with the value bound
\* to the placeholder $param
Condition(column, op, param) == [column |-> column, op |-> op, param |-> param]

\* a plausible slip: param_count is not advanced for the end date
ListExpensesSql_SamePlaceholder(query) ==
    LET start == IF IsSome(query.start_date)
                 THEN <<Condition("expense_date", ">=", 2)>> ELSE <<>>
        end == IF IsSome(query.end_date)
               THEN <<Condition("expense_date", "<=", 2)>> ELSE <<>>
        category == IF IsSome(query.category_id)
                    THEN <<Condition("category_id", "=", 2 + Len(start) + Len(end))>> ELSE <<>>
    IN  start \o end \o category

\* list_expenses: the conditions appended to WHERE expenses.user_id = $1,
\* each with the placeholder param_count names when it is appended
ListExpensesSql(query) ==
    LET start == IF IsSome(query.start_date)
                 THEN <<Condition("expense_date", ">=", 2)>> ELSE <<>>
        end == IF IsSome(query.end_date)
               THEN <<Condition("expense_date", "<=", 2 + Len(start))>> ELSE <<>>
        category == IF IsSome(query.category_id)
                    THEN <<Condition("category_id", "=", 2 + Len(start) + Len(end))>> ELSE <<>>
    IN  start \o end \o category

\* list_expenses: the values bound to $1, $2, ..., in the order of the
\* bind calls
ListExpensesBinds(user_id, query) ==
    <<user_id>> \o query.start_date \o query.end_date \o query.category_id

\* the store's evaluation of a condition on an expense row
ConditionHolds(e, cond, binds) ==
    LET value == binds[cond.param] IN
    IF cond.column = "expense_date" /\ cond.op = ">=" THEN DateGE(e.expense_date, value)
    ELSE IF cond.column = "expense_date" /\ cond.op = "<=" THEN DateGE(value, e.expense_date)
    ELSE e.category_id = value

\* the rows the statement of list_expenses selects
ListExpensesRows(sql, binds) ==
    {e \in expenses : /\ e.user_id = binds[1]
                      /\ \A i \in 1..Len(sql) : ConditionHolds(e, sql[i], binds)}

\* ORDER BY expenses.expense_date DESC, expenses.created_at DESC: a comes
\* strictly before b
ListedBefore(a, b) ==
    \/ ~DateGE(b.expense_date, a.expense_date)
    \/ a.expense_date = b.expense_date /\ a.created_at > b.created_at

\* the orders in which the store can return a set of rows under that
\* ORDER BY: rows that tie on both keys come in any order
RECURSIVE Ordered(_)
Ordered(rows) ==
    IF rows = {} THEN {<<>>}
    ELSE UNION {{<<e>> \o rest : rest \in Ordered(rows \ {e})} :
                    e \in {x \in rows : \A y \in rows : ~ListedBefore(y, x)}}

\* list_expenses
list_expenses(r, h, input) ==
    /\ Arrives(r)
    /\ LET rq == Extract("list_expenses", h, input)
           sql == ListExpensesSql(rq.payload)
           binds == ListExpensesBinds(rq.subject, rq.payload)
           found == Joined(ListExpensesRows(sql, binds))
       IN  IF Turned(rq) THEN Finish(r, rq, rq.resp)
           ELSE \E listing \in Ordered(found) :
                    FinishSql(r, rq, [WithCategory(found) EXCEPT !.rows = listing])
    /\ UNCHANGED <<storeVars, authVars, accountVars, unitVars>>

\* get_expense
get_expense(r, h, input) ==
    /\ Arrives(r)
    /\ LET rq == Extract("get_expense", h, input)
           found == Joined(SelectExpense(rq.id, rq.subject))
       IN  IF Turned(rq) THEN Finish(r, rq, rq.resp)
           ELSE IF found = {}
           THEN FinishSql(r, rq, into_response("NotFound", "Expense not found"))
           ELSE FinishSql(r, rq, WithCategory(found))
    /\ UNCHANGED <<storeVars, authVars, accountVars, unitVars>>

\* update_expense, after its checks: the Decimal conversion of the amount
\* made while the statement is built
UpdateExpenseBuild(r, rq) ==
    IF IsSome(rq.payload.amount) /\ ~IsSome(DecimalTryFrom(Unwrap(rq.payload.amount)))
    THEN FinishSql(r, rq, into_response("Validation", "Invalid amount"))
    ELSE Goto(r, rq, "update_expense_update")

\* update_expense: the extractors, validation and the existence check
update_expense(r, h, input) ==
    /\ Arrives(r)
    /\ LET rq == Extract("update_expense", h, input) IN
       IF Turned(rq) THEN Finish(r, rq, rq.resp)
       ELSE IF ~UpdateExpense_validate(rq.payload)
       THEN Finish(r, rq, into_response("Validation", "Amount must be greater than 0"))
       ELSE IF ~ExpenseExists(rq.id, rq.subject)
       THEN FinishSql(r, rq, into_response("NotFound", "Expense not found"))
       ELSE IF IsSome(rq.payload.category_id)
       THEN Goto(r, rq, "update_expense_category")
       ELSE UpdateExpenseBuild(r, rq)
    /\ UNCHANGED <<storeVars, authVars, accountVars, unitVars>>

\* update_expense: the check of the new category
update_expense_category(r) ==
    /\ slots[r].pc = "update_expense_category"
    /\ LET rq == slots[r] IN
       IF ~CategoryExists(Unwrap(rq.payload.category_id), rq.subject)
       THEN FinishSql(r, rq, into_response("NotFound", "Category not found"))
       ELSE UpdateExpenseBuild(r, rq)
    /\ UNCHANGED <<storeVars, issued, authVars, accountVars, unitVars>>

\* the row after SET updated_at = NOW() and SET of the fields present in
\* the payload; the description is written as a string literal
UpdatedExpense(e, p, t) ==
    [e EXCEPT !.updated_at = t,
              !.category_id = IF IsSome(p.category_id) THEN Unwrap(p.category_id) ELSE @,
              !.amount = IF IsSome(p.amount) THEN Unwrap(p.amount) ELSE @,
              !.description = IF IsSome(p.description)
                              THEN StringLiteral(EscapeQuotes(Unwrap(p.description))) ELSE @,
              !.expense_date = IF IsSome(p.expense_date) THEN Unwrap(p.expense_date) ELSE @]

\* UPDATE expenses SET updated_at = NOW(), ... WHERE id = '<id>' AND user_id = '<user>'
UpdateExpenseRows(id, user_id, p, t) ==
    {IF e.id = id /\ e.user_id = user_id THEN UpdatedExpense(e, p, t) ELSE e : e \in expenses}

\* update_expense: the UPDATE statement; category_id REFERENCES
\* categories(id) refuses a category that is no longer there
update_expense_update(r) ==
    /\ slots[r].pc = "update_expense_update"
    /\ LET rq == slots[r]
           after == UpdateExpenseRows(rq.id, rq.subject, rq.payload, now)
       IN  IF \E e \in after : ~\E c \in categories : c.id = e.category_id
           THEN /\ FinishSql(r, rq, into_response("Database",
                    "violates foreign key constraint"))
                /\ UNCHANGED storeVars
           ELSE /\ expenses' = after
                /\ Goto(r, rq, "update_expense_reread")
                /\ UNCHANGED <<categories, nextCatId>>
    /\ UNCHANGED <<issued, authVars, accountVars, unitVars>>

\* update_expense: ... WHERE expenses.id = $1, fetch_one
update_expense_reread(r) ==
    /\ slots[r].pc = "update_expense_reread"
    /\ LET rq == slots[r]
           found == Joined({e \in expenses : e.id = rq.id})
       IN  IF found = {} THEN FinishSql(r, rq, into_response("Database",
                    "no rows returned by a query that expected to return at least one row"))
           ELSE FinishSql(r, rq, WithCategory(found))
    /\ UNCHANGED <<storeVars, issued, authVars, accountVars, unitVars>>

\* a plausible slip: the delete addressed by identifier alone
DeleteExpenseRows_AnyOwner(id, user_id) == {e \in expenses : e.id = id}

\* the rows of DELETE FROM expenses WHERE id = $1 AND user_id = $2
DeleteExpenseRows(id, user_id) == {e \in expenses : e.id = id /\ e.user_id = user_id}

\* delete_expense
delete_expense(r, h, input) ==
    /\ Arrives(r)
    /\ LET rq == Extract("delete_expense", h, input)
           gone == DeleteExpenseRows(rq.id, rq.subject)
       IN  IF Turned(rq)
           THEN /\ Finish(r, rq, rq.resp)
                /\ UNCHANGED storeVars
           ELSE IF gone = {}
           THEN /\ FinishSql(r, rq, into_response("NotFound", "Expense not found"))
                /\ UNCHANGED storeVars
           ELSE /\ expenses' = expenses \ gone
                /\ FinishSql(r, rq, Response(204, ""))
                /\ UNCHANGED <<categories, nextCatId>>
    /\ UNCHANGED <<authVars, accountVars, unitVars>>

\* ------------------------------------------------------------------------
\* Summary handlers
\* ------------------------------------------------------------------------
\* get_monthly_summary: the user's expenses grouped by month and year
get_monthly_summary(r, h) ==
    /\ Arrives(r)
    /\ LET rq == Extract("get_monthly_summary", h, Input(0, NoPayload))
           mine == {e \in expenses : e.user_id = rq.subject}
           groups == {<<e.expense_date.month, e.expense_date.year>> : e \in mine}
           of(g) == {e \in mine : e.expense_date.month = g[1] /\ e.expense_date.year = g[2]}
       IN  IF Turned(rq) THEN Finish(r, rq, rq.resp)
           ELSE FinishSql(r, rq, [Response(200, "") EXCEPT
                    !.expenses = mine,
                    !.body = {[month |-> MonthName(g[1]), year |-> g[2],
                               total_amount |-> SumAmounts(of(g)),
                               expense_count |-> Cardinality(of(g))] : g \in groups}])
    /\ UNCHANGED <<storeVars, authVars, accountVars, unitVars>>

\* get_category_summary: the user's categories LEFT JOIN the expenses of
\* each category dated from the first day of the current month
get_category_summary(r, h) ==
    /\ Arrives(r)
    /\ LET rq == Extract("get_category_summary", h, Input(0, NoPayload))
           today == Today(now)
           start_of_month == Date(today.year, today.month, 1)
           mine == {c \in categories : c.user_id = rq.subject}
           of(c) == {e \in expenses : e.category_id = c.id
                                        /\ DateGE(e.expense_date, start_of_month)}
       IN  IF Turned(rq) THEN Finish(r, rq, rq.resp)
           ELSE FinishSql(r, rq, [Response(200, "") EXCEPT
                    !.categories = mine,
                    !.expenses = UNION {of(c) : c \in mine},
                    !.body = {[category_id |-> c.id, category_name |-> c.name,
                               total_amount |-> SumAmounts(of(c)),
                               expense_count |-> Cardinality(of(c))] : c \in mine}])
    /\ UNCHANGED <<storeVars, authVars, accountVars, unitVars>>

\* ------------------------------------------------------------------------
\* Spec: the server
\* ------------------------------------------------------------------------
Init ==
    /\ now = 0
    /\ held = NoToken
    /\ last = NoEval
    /\ envSecret = ConfigSecret
    /\ categories = InitialCategories
    /\ expenses = InitialExpenses
    /\ nextCatId = 3
    /\ slots = [r \in Slots |-> IdleSlot]
    /\ reply = IdleSlot
    /\ issued = 0
    /\ users = UserRows
    /\ nextUserId = 3
    /\ pw = NoCheck
    /\ pool = IdlePool
    /\ ui = NoPage

Next ==
    \/ \E r \in FreeSlot, h \in ClientHeaders : health(r, h)
    \/ \E r \in FreeSlot, h \in ClientHeaders : get_current_user(r, h)
    \/ \E r \in FreeSlot, h \in ClientHeaders :
            \E input \in Sent("create_category", h) : create_category(r, h, input)
    \/ \E r \in Slots : create_category_insert(r)
    \/ \E r \in FreeSlot, h \in ClientHeaders : list_categories(r, h)
    \/ \E r \in FreeSlot, h \in ClientHeaders :
            \E input \in Sent("get_category", h) : get_category(r, h, input)
    \/ \E r \in FreeSlot, h \in ClientHeaders :
            \E input \in Sent("update_category", h) : update_category(r, h, input)
    \/ \E r \in Slots : update_category_name(r)
    \/ \E r \in Slots : update_category_update(r)
    \/ \E r \in Slots : update_category_reread(r)
    \/ \E r \in FreeSlot, h \in ClientHeaders :
            \E input \in Sent("delete_category", h) : delete_category(r, h, input)
    \/ \E r \in Slots : delete_category_delete(r)
    \/ \E r \in FreeSlot, h \in ClientHeaders :
            \E input \in Sent("create_expense", h) : create_expense(r, h, input)
    \/ \E r \in Slots : create_expense_insert(r)
    \/ \E r \in FreeSlot, h \in ClientHeaders :
            \E input \in Sent("list_expenses", h) : list_expenses(r, h, input)
    \/ \E r \in FreeSlot, h \in ClientHeaders :
            \E input \in Sent("get_expense", h) : get_expense(r, h, input)
    \/ \E r \in FreeSlot, h \in ClientHeaders :
            \E input \in Sent("update_expense", h) : update_expense(r, h, input)
    \/ \E r \in Slots : update_expense_category(r)
    \/ \E r \in Slots : update_expense_update(r)
    \/ \E r \in Slots : update_expense_reread(r)
    \/ \E r \in FreeSlot, h \in ClientHeaders :
            \E input \in Sent("delete_expense", h) : delete_expense(r, h, input)
    \/ \E r \in FreeSlot, h \in ClientHeaders : get_monthly_summary(r, h)
    \/ \E r \in FreeSlot, h \in ClientHeaders : get_category_summary(r, h)

Spec == Init /\ [][Next]_vars

\* ------------------------------------------------------------------------
\* Server: claims
\* ------------------------------------------------------------------------
Answered == reply.pc = "done"

\* the routes served without a token
PublicRoutes == {"health", "register", "login"}

\* C6: a request to a route other than /health, register and login that
\* the gate rejects receives the gate's rejection and sends no statement
\* to the store; a handler of such a route runs only for the subject the
\* gate authenticated.
C6_GateBeforeHandler ==
    /\ (Answered /\ reply.route \notin PublicRoutes /\ ~reply.gate.ok) =>
            (/\ reply.resp = Response(reply.gate.status, reply.gate.message)
             /\ ~reply.touched)
    /\ (Answered /\ reply.route \notin PublicRoutes /\ reply.touched) =>
            (reply.gate.ok /\ reply.subject = reply.gate.user_id)
    /\ \A r \in Slots : (slots[r].pc # "idle" /\ slots[r].route \notin PublicRoutes) =>
            (slots[r].gate.ok /\ slots[r].subject = slots[r].gate.user_id)

\* the gate turned down a delete_category request that carried a token
\* signed with another key
C6_Witness ==
    /\ Answered /\ reply.route = "delete_category" /\ ~reply.gate.ok
    /\ reply.resp.status = 401 /\ ~reply.touched

ReadRoutes == {"list_categories", "get_category", "update_category",
               "list_expenses", "get_expense", "update_expense",
               "get_monthly_summary", "get_category_summary"}

\* C7: every response of a read path holds only rows, and aggregates only
\* amounts, whose recorded owner is the authenticated subject.
C7_ReadsOnlyOwnRows ==
    (Answered /\ reply.route \in ReadRoutes /\ reply.gate.ok) =>
        /\ \A c \in reply.resp.categories : c.user_id = reply.subject
        /\ \A e \in reply.resp.expenses : e.user_id = reply.subject

\* user 2 received a category summary that aggregates an expense
C7_Witness ==
    /\ Answered /\ reply.route = "get_category_summary" /\ reply.resp.status = 200
    /\ reply.resp.expenses # {}
    /\ \E c \in categories : c.user_id # reply.subject

\* the subject of the request that takes the step
Acting ==
    {slots'[r].subject : r \in {q \in Slots : slots'[q] # slots[q] /\ slots'[q].pc # "idle"}}
    \cup (IF reply'.pc = "done" THEN {reply'.subject} ELSE {})

RowsOf(u, rows) == {x \in rows : x.user_id = u}

\* C8: no step of a request authenticated as one user inserts, modifies or
\* deletes a category or expense row owned by another user.
C8_NoWriteToOthersRows ==
    [][\A u \in UserIds : u \notin Acting =>
            /\ RowsOf(u, categories') = RowsOf(u, categories)
            /\ RowsOf(u, expenses') = RowsOf(u, expenses)]_vars

\* user 1 asked to delete the expense of user 2, which is still there
C8_Witness ==
    /\ Answered /\ reply.route = "delete_expense" /\ reply.gate.ok
    /\ reply.touched
    /\ \E e \in expenses : e.id = reply.id /\ e.user_id # reply.subject

ExpenseRoutes == {"get_expense", "update_expense", "delete_expense"}

\* the answered request named an expense that belongs to another user
ForeignExpense ==
    /\ Answered /\ reply.gate.ok /\ reply.route \in ExpenseRoutes
    /\ \E e \in expenses : e.id = reply.id /\ e.user_id # reply.subject

\* the answered request named an expense identifier that never existed
AbsentExpense ==
    /\ Answered /\ reply.gate.ok /\ reply.route \in ExpenseRoutes
    /\ reply.id \notin {e.id : e \in InitialExpenses}

\* C9 (as stated): get_expense, update_expense and delete_expense called
\* with the identifier of another user's expense return 404 NotFound.
C9_ForeignExpenseIs404 ==
    ForeignExpense => reply.resp = into_response("NotFound", "Expense not found")

\* what the expense routes answer for an identifier that is not the
\* caller's: the payload is validated before the expense is looked up
NotMineExpense(rq) ==
    IF rq.route = "update_expense" /\ IsSome(rq.payload.amount) /\ Unwrap(rq.payload.amount) < 1
    THEN Response(400, "Amount must be greater than 0")
    ELSE Response(404, "Expense not found")

\* C9 (amended): for the identifier of another user's expense get_expense
\* and delete_expense return 404 NotFound, and so does update_expense
\* unless its payload fails validation, which is answered 400 before the
\* expense is looked up; in each case the answer is the one for an
\* identifier that does not exist, never 403, and the step leaves the
\* expenses unchanged.
C9_ForeignExpenseLikeAbsent ==
    [][/\ ForeignExpense' => (/\ reply'.resp = NotMineExpense(reply')
                              /\ reply'.resp.status # 403
                              /\ expenses' = expenses)
       /\ AbsentExpense' => reply'.resp = NotMineExpense(reply')]_vars

\* user 1 sent a valid update for the expense of user 2 and received 404
C9_Witness ==
    /\ ForeignExpense /\ reply.route = "update_expense"
    /\ IsSome(reply.payload.description)
    /\ reply.resp.status = 404

CategoryRoutes == {"get_category", "update_category", "delete_category"}

\* the answered request named a category that belongs to another user
ForeignCategory ==
    /\ Answered /\ reply.gate.ok /\ reply.route \in CategoryRoutes
    /\ \E c \in categories : c.id = reply.id /\ c.user_id # reply.subject

\* what the category routes answer for an identifier that does not exist
AbsentCategory(rq) ==
    IF rq.route = "update_category" /\ IsSome(rq.payload.name)
        /\ Unwrap(rq.payload.name) \in {"", LongName}
    THEN Response(400, "Category name must be 1-100 characters")
    ELSE Response(404, "Category not found")

\* C10 (as stated): get_category, update_category and delete_category
\* answer a request for another user's category exactly as they answer a
\* request for an identifier that does not exist, whatever names or
\* expenses the other user has.
C10_ForeignCategoryLikeAbsent ==
    ForeignCategory => reply.resp = AbsentCategory(reply)

\* the step receives a create_category request that passes the gate and
\* validation
CreateCategoryArrives ==
    /\ issued' = issued + 1
    /\ \/ reply'.pc = "done" /\ reply'.route = "create_category" /\ reply'.gate.ok
          /\ CreateCategory_validate(reply'.payload)
       \/ \E r \in Slots : slots[r].pc = "idle" /\ slots'[r].pc = "create_category_insert"

\* the request received in the step
Arrived ==
    IF reply'.pc = "done" THEN reply'
    ELSE slots'[CHOOSE r \in Slots : slots[r].pc = "idle" /\ slots'[r].pc # "idle"]

\* C15: create_category with a name the same user already has is answered
\* with a validation error and stores nothing; a name that only other
\* users have goes on to the insert, and the insert of a name the user
\* does not have stores the row for that user and answers 201.
C15_NamesUniquePerUser ==
    [][/\ CreateCategoryArrives =>
            LET rq == Arrived IN
            IF \E c \in categories : c.user_id = rq.subject /\ c.name = Unwrap(rq.payload.name)
            THEN /\ reply'.pc = "done"
                 /\ reply'.resp = Response(400, "Category name already exists")
                 /\ categories' = categories
            ELSE reply'.pc # "done"
       /\ (\E r \in Slots : slots[r].pc = "create_category_insert" /\ slots'[r].pc = "idle") =>
            LET name == Unwrap(reply'.payload.name) IN
            (~\E c \in categories : c.user_id = reply'.subject /\ c.name = name) =>
                /\ reply'.resp.status = 201
                /\ \E c \in categories' \ categories :
                        /\ c.user_id = reply'.subject /\ c.name = name
                        /\ categories' = categories \cup {c}
                        /\ reply'.resp.categories = {c}]_vars

\* a user created a category under a name that another user has as well
C15_Witness ==
    /\ Answered /\ reply.route = "create_category" /\ reply.resp.status = 201
    /\ \E c \in categories : /\ c.name = Unwrap(reply.payload.name)
                             /\ c.user_id # reply.subject

\* C16 (as stated): create_category or update_category refused because the
\* user already has a category of that name is answered 400, never 500,
\* also when the requests interleave between the pre-check and the write.
C16_NameConflictIs400 ==
    (/\ Answered /\ reply.gate.ok /\ reply.route \in {"create_category", "update_category"}
     /\ IsSome(reply.payload.name)
     /\ \E c \in categories : /\ c.user_id = reply.subject
                              /\ c.name = Unwrap(reply.payload.name)
                              /\ c.id # reply.id)
    => reply.resp.status # 500

AppErrorKinds == {"Database", "Migration", "Authentication", "Unauthorized", "NotFound",
                  "Validation", "Internal", "Jwt", "PasswordHash"}

\* texts an internal error can carry
ErrorTexts == {"", "Invalid credentials", "Category not found",
               "duplicate key value violates unique constraint categories_user_id_name_key",
               "syntax error at or near FROM"}

GenericMessages == {"Database error occurred", "Database migration error",
                    "Internal server error", "Authentication processing error"}

\* C17: each error kind has one fixed status (authentication and token
\* failures 401, validation 400, not-found 404, store, migration, hashing
\* and internal failures 500); the 500 kinds send a fixed generic message
\* whatever the internal text; every error response of a handler is one
\* of these.
C17_OneKindOneStatus ==
    /\ \A kind \in AppErrorKinds, msg \in ErrorTexts :
            LET resp == into_response(kind, msg) IN
            /\ resp.status = (IF kind \in {"Authentication", "Unauthorized", "Jwt"} THEN 401
                              ELSE IF kind = "Validation" THEN 400
                              ELSE IF kind = "NotFound" THEN 404
                              ELSE 500)
            /\ resp.status = 500 =>
                    (resp.message \in GenericMessages /\ resp = into_response(kind, ""))
    /\ (Answered /\ reply.resp.status >= 400) =>
            /\ reply.resp.status \in {400, 401, 404, 500}
            /\ reply.resp.status = 500 => reply.resp.message \in GenericMessages

\* the store refused a statement and the caller received the generic 500
C17_Witness ==
    /\ Answered /\ reply.route = "create_expense"
    /\ reply.resp = Response(500, "Database error occurred")

\* the requests whose gate outcome is on record: the one just answered
\* and the ones in flight, on the routes that take an AuthUser
GateSeen ==
    {rq \in {reply} \cup {slots[r] : r \in Slots} :
        rq.pc # "idle" /\ rq.route \notin PublicRoutes}

Updating(pc, next) == {r \in Slots : slots[r].pc = pc /\ slots'[r].pc = next}

\* the value a payload field gives a column: the supplied one, or the one
\* the row had
Patched(field, old) == IF IsSome(field) THEN Unwrap(field) ELSE old

\* C23: the UPDATE of a successful update_category or update_expense gives
\* every field present in the payload the supplied value and leaves every
\* absent field as it was (updated_at of an expense becomes the current
\* instant); the row keeps its id and its owner, and no other row changes.
C23_PartialUpdate ==
    [][LET cats == categories'
           exps == expenses'
       IN
       /\ \A r \in Updating("update_category_update", "update_category_reread") :
            LET rq == slots[r]
                p == rq.payload
                target == {c \in categories : c.id = rq.id /\ c.user_id = rq.subject}
            IN  /\ exps = expenses
                /\ categories \ target \subseteq cats
                /\ cats \ categories \subseteq
                        {[id |-> c.id, user_id |-> c.user_id,
                          name |-> Patched(p.name, c.name),
                          color |-> IF IsSome(p.color) THEN p.color ELSE c.color,
                          icon |-> IF IsSome(p.icon) THEN p.icon ELSE c.icon] : c \in target}
                /\ Cardinality(cats) = Cardinality(categories)
       /\ \A r \in Updating("update_expense_update", "update_expense_reread") :
            LET rq == slots[r]
                p == rq.payload
                target == {e \in expenses : e.id = rq.id /\ e.user_id = rq.subject}
            IN  /\ cats = categories
                /\ expenses \ target \subseteq exps
                /\ exps \ expenses \subseteq
                        {[id |-> e.id, user_id |-> e.user_id,
                          category_id |-> Patched(p.category_id, e.category_id),
                          amount |-> Patched(p.amount, e.amount),
                          description |-> Patched(p.description, e.description),
                          expense_date |-> Patched(p.expense_date, e.expense_date),
                          created_at |-> e.created_at,
                          updated_at |-> now] : e \in target}
                /\ Cardinality(exps) = Cardinality(expenses)]_vars

\* an update that named only a description with a quote in it was
\* answered with the row, which has that description and, but for
\* updated_at, the other fields of the initial row
C23_Witness ==
    /\ Answered /\ reply.route = "update_expense" /\ reply.resp.status = 200
    /\ reply.payload.description = Some("o'k")
    /\ \E e \in reply.resp.expenses, e0 \in InitialExpenses :
            /\ e.description = "o'k"
            /\ e = [e0 EXCEPT !.description = "o'k", !.updated_at = now]
            /\ e.updated_at # e0.updated_at

\* the answered request named a category that is not the caller's
NotMyCategory ==
    /\ Answered /\ reply.gate.ok /\ reply.route \in {"create_expense", "update_expense"}
    /\ IsSome(reply.payload.category_id)
    /\ ~\E c \in categories : /\ c.id = Unwrap(reply.payload.category_id)
                                /\ c.user_id = reply.subject

\* C24 (as stated): create_expense and update_expense that name a
\* category which does not exist or belongs to another user return
\* NotFound, "Category not found".
C24_ForeignCategoryIs404 ==
    NotMyCategory => reply.resp = into_response("NotFound", "Category not found")

\* the request that takes the step is at its category check, and the
\* category it names is not one of its subject
AtCategoryCheck(rq) ==
    /\ rq.gate.ok
    /\ IsSome(rq.payload.category_id)
    /\ ~\E c \in categories : /\ c.id = Unwrap(rq.payload.category_id)
                                /\ c.user_id = rq.subject

\* C24 (amended): create_expense with a payload that passes validation,
\* and update_expense with such a payload for an expense of the caller,
\* that name a category which, when the handler looks it up, does not
\* exist or belongs to another user, return NotFound, "Category not
\* found", and the store is left as it was; a payload that fails
\* validation is answered 400, and an update of an expense that is not
\* the caller's 404 "Expense not found", before the category is looked
\* up, the store again left as it was.
C24_ForeignCategoryChecked ==
    [][LET answer == reply'
           created == issued' = issued + 1 /\ answer.pc = "done"
                        /\ answer.route = "create_expense"
           updated == issued' = issued + 1 /\ answer.pc = "done"
                        /\ answer.route = "update_expense"
       IN
       /\ (created /\ AtCategoryCheck(answer)) =>
            /\ answer.resp = (IF CreateExpense_validate(answer.payload)
                               THEN Response(404, "Category not found")
                               ELSE Response(400, "Invalid expense"))
            /\ UNCHANGED storeVars
       /\ (updated /\ AtCategoryCheck(answer)) =>
            /\ answer.resp = (IF UpdateExpense_validate(answer.payload)
                               THEN Response(404, "Expense not found")
                               ELSE Response(400, "Amount must be greater than 0"))
            /\ UNCHANGED storeVars
       /\ \A r \in Slots :
            (slots[r].pc = "update_expense_category" /\ AtCategoryCheck(slots[r])) =>
                (slots'[r] # slots[r] =>
                    /\ answer.pc = "done"
                    /\ answer.resp = Response(404, "Category not found")
                    /\ UNCHANGED storeVars)
       /\ \A r \in Slots :
            (slots[r].pc = "idle" /\ slots'[r].pc \in {"create_expense_insert",
                                                       "update_expense_update"}) =>
                ~AtCategoryCheck(slots'[r])]_vars

\* user 2 asked to move its expense to the category of user 1, was
\* answered that the category is not found, and the expense is as it was
C24_Witness ==
    /\ NotMyCategory /\ reply.route = "update_expense"
    /\ reply.resp = Response(404, "Category not found")
    /\ \E c \in categories : c.id = Unwrap(reply.payload.category_id)
    /\ expenses = InitialExpenses

ExpenseWrites == {"create_expense", "update_expense"}

\* C25 (as stated): every stored expense has a non-empty description;
\* create_expense and update_expense reject a payload whose description
\* is the empty string with a validation error, and store nothing.
C25_DescriptionsNonEmpty ==
    /\ \A e \in expenses : e.description # ""
    /\ (Answered /\ reply.gate.ok /\ reply.route \in ExpenseWrites
            /\ reply.payload.description = Some("")) =>
            (reply.resp.status = 400 /\ ~reply.touched)

\* C26: every stored expense has an amount greater than 0; create_expense
\* and update_expense reject a payload whose amount is zero or negative
\* with a validation error, before any statement is sent to the store.
C26_AmountsPositive ==
    /\ \A e \in expenses : e.amount > 0
    /\ \A r \in Slots : (slots[r].route \in ExpenseWrites /\ slots[r].pc # "idle") =>
            (IsSome(slots[r].payload.amount) => Unwrap(slots[r].payload.amount) > 0)
    /\ (Answered /\ reply.gate.ok /\ reply.route \in ExpenseWrites
            /\ IsSome(reply.payload.amount) /\ Unwrap(reply.payload.amount) <= 0) =>
            /\ reply.resp.status = 400
            /\ reply.resp.message \in {"Invalid expense", "Amount must be greater than 0"}
            /\ ~reply.touched

\* an update with a negative amount was turned down and a valid one was
\* stored, both for the expense of user 2
C26_Witness ==
    /\ Answered /\ reply.gate.ok /\ reply.route = "update_expense"
    /\ reply.payload.amount = Some(-100)
    /\ reply.resp.status = 400
    /\ \E e \in expenses : e.id = reply.id /\ e.user_id = reply.subject /\ e.amount = 700

\* ------------------------------------------------------------------------
\* SpecUsers: accounts and sessions, with the clock running
\* ------------------------------------------------------------------------
RegisterInputs == {Input(0, p) : p \in RegisterPayloads}
LoginInputs == {Input(0, p) : p \in LoginPayloads}

\* the Authorization headers of a client: none, or the token it holds
SessionHeaders == {NoHeader, Bearer(held)}

\* time passes, up to the next instant of interest
Advance ==
    /\ \E t \in Instants : t > now
    /\ now' = CHOOSE t \in Instants : t > now /\ \A t2 \in Instants : t2 > now => t <= t2
    /\ last' = NoEval
    /\ UNCHANGED <<held, envSecret, serverVars, unitVars>>

\* the instants that matter to a token of the server: the instants at
\* which it is minted, and those around its expiry
SessionInstants == MintTimes \cup
    {t + ConfigHours * SecondsPerHour + d : t \in MintTimes, d \in {-1, 0, Leeway, Leeway + 1}}

\* the server's clock runs on to the next of these instants
Tick ==
    /\ \E t \in SessionInstants : t > now
    /\ now' = CHOOSE t \in SessionInstants :
                    t > now /\ \A t2 \in SessionInstants : t2 > now => t <= t2
    /\ last' = NoEval
    /\ UNCHANGED <<held, envSecret, serverVars, unitVars>>

UsersNext ==
    \/ \E r \in FreeSlot, input \in RegisterInputs : register(r, input)
    \/ \E r \in Slots, salt \in SaltValues : register_insert(r, salt)
    \/ \E r \in FreeSlot, input \in LoginInputs : login(r, input)
    \/ \E r \in FreeSlot, h \in SessionHeaders : get_current_user(r, h)
    \/ Tick

SpecUsers == Init /\ [][UsersNext]_vars

\* ------------------------------------------------------------------------
\* Accounts and sessions: claims
\* ------------------------------------------------------------------------
\* the instant at which create_jwt minted a token of the server
MintedAt(token) == token.exp - ConfigHours * SecondsPerHour

\* C11: a registration answered 201 carries a token and the new user
\* without a password-hash field, the gate accepts that token at that
\* instant with the new user's identifier as subject, and a current-user
\* request made with a token at the instant it was minted is answered
\* with the email of the token's user.
C11_RegisterThenCurrentUser ==
    /\ (Answered /\ reply.route = "register" /\ reply.resp.status = 201) =>
            /\ reply.resp.token # NoToken
            /\ \E u \in users :
                    /\ u.email = Unwrap(reply.payload.email)
                    /\ reply.resp.body = {[id |-> u.id, email |-> u.email,
                                           full_name |-> Unwrap(reply.payload.full_name)]}
                    /\ from_request_parts(Bearer(reply.resp.token), envSecret, reply.at)
                            = Authenticated(u.id)
    /\ (Answered /\ reply.route = "get_current_user" /\ reply.header = Bearer(held)
            /\ held # NoToken /\ reply.at = MintedAt(held)) =>
            /\ reply.resp.status = 200
            /\ \E u \in users : /\ UuidToString(u.id) = held.sub
                                /\ \A b \in reply.resp.body : b.email = u.email
                                /\ reply.resp.body # {}

\* the user registered as e@f.com asked for the current user at once
C11_Witness ==
    /\ Answered /\ reply.route = "get_current_user" /\ reply.header = Bearer(held)
    /\ reply.at = MintedAt(held)
    /\ \E b \in reply.resp.body : b.email = "e@f.com"

\* C12: a login refused for a wrong password and a login refused because
\* no account has the email receive the same response, 401 with the one
\* generic message.
C12_LoginRefusalsAlike ==
    (Answered /\ reply.route = "login" /\ EmailOk(Unwrap(reply.payload.email))) =>
        LET rows == {u \in users : u.email = Unwrap(reply.payload.email)} IN
        /\ rows = {} => reply.resp = Response(401, "Invalid credentials")
        /\ (rows # {} /\ Unwrap(reply.payload.password) = "wrongpass99") =>
                reply.resp = Response(401, "Invalid credentials")
        /\ reply.resp.status # 200 => reply.resp = Response(401, "Invalid credentials")

\* a login with a wrong password for the account a@b.com was refused
C12_Witness ==
    /\ Answered /\ reply.route = "login"
    /\ Unwrap(reply.payload.email) = "a@b.com"
    /\ Unwrap(reply.payload.password) = "wrongpass99"
    /\ reply.resp.status = 401

\* C18 (as stated): the gate accepts a token minted at login or
\* registration at every instant before its expiry, whatever happened in
\* between, and never at or after its expiry.
C18_TokenLivesUntilExpiry ==
    (Answered /\ reply.route = "get_current_user" /\ held # NoToken
        /\ reply.header = Bearer(held)) =>
        /\ reply.at < held.exp => reply.gate = Authenticated(ParseUuid(held.sub))
        /\ reply.at >= held.exp => ~reply.gate.ok

\* ------------------------------------------------------------------------
\* SpecPassword: the password codec
\* ------------------------------------------------------------------------
PasswordInit ==
    /\ now = 0
    /\ held = NoToken
    /\ last = NoEval
    /\ envSecret = ConfigSecret
    /\ categories = InitialCategories
    /\ expenses = InitialExpenses
    /\ nextCatId = 3
    /\ slots = [r \in Slots |-> IdleSlot]
    /\ reply = IdleSlot
    /\ issued = 0
    /\ users = UserRows
    /\ nextUserId = 3
    /\ pw \in {NoCheck} \cup {[NoCheck EXCEPT !.op = "stored", !.stored = h] : h \in ForeignHashes}
    /\ pool = IdlePool
    /\ ui = NoPage

\* hash_password applied to a password, the generator drawing salt
HashPassword(p, salt) ==
    /\ pw' = [NoCheck EXCEPT !.op = "hash", !.password = p, !.hashed = TRUE,
                             !.stored = hash_password(p, salt).value]
    /\ UNCHANGED <<authVars, serverVars, pool, ui>>

\* verify_password applied to a password and the stored hash
VerifyPassword(p) ==
    /\ pw.op # "none"
    /\ pw' = [pw EXCEPT !.op = "verify", !.given = p,
                        !.result = verify_password(p, pw.stored)]
    /\ UNCHANGED <<authVars, serverVars, pool, ui>>

PasswordNext ==
    \/ \E p \in Passwords, salt \in SaltValues : HashPassword(p, salt)
    \/ \E p \in Passwords : VerifyPassword(p)

SpecPassword == PasswordInit /\ [][PasswordNext]_vars

\* C13 (as stated): verify_password fails in one and the same way, with
\* the generic "invalid credentials" outcome (401), when the stored hash
\* cannot be parsed and when the password is wrong.
C13_BadHashLikeWrongPassword ==
    (pw.op = "verify" /\ ~pw.result.ok) =>
        /\ pw.result.kind = "Authentication"
        /\ into_response(pw.result.kind, pw.result.msg) = Response(401, "Invalid credentials")

\* C14: a password verifies against the hash hash_password made of it,
\* whichever salt was drawn, and no other password verifies against it.
C14_VerifyInvertsHash ==
    (pw.op = "verify" /\ pw.hashed) => (pw.result.ok <=> pw.given = pw.password)

\* a password that differs only in case was refused against a hash made
\* with the last salt
C14_Witness ==
    /\ pw.op = "verify" /\ pw.hashed
    /\ pw.password = "longenough1" /\ pw.given = "Longenough1"
    /\ pw.stored.salt = MaxSalt
    /\ ~pw.result.ok

\* ------------------------------------------------------------------------
\* SpecPool: the requests and the connection pool
\* ------------------------------------------------------------------------
RECURSIVE Total(_, _)
Total(count, stands) ==
    IF stands = {} THEN 0
    ELSE LET k == CHOOSE x \in stands : TRUE IN count[k] + Total(count, stands \ {k})

\* requests in flight
InFlight == Total(pool.req, Stands)

\* connections checked out
InUse == Total(pool.req, {k \in Stands : k.pc = "running"})

Waiting == {k \in Stands : k.pc = "waiting" /\ pool.req[k] > 0}

Leaves(count, k) == [count EXCEPT ![k] = @ - 1]
Enters(count, k) == [count EXCEPT ![k] = @ + 1]

\* a request arrives; its handler asks the pool for a connection for its
\* first statement (fetch_one(&state.pool))
PoolArrive ==
    /\ InFlight < MaxClients
    /\ pool' = [req |-> Enters(pool.req, Waits(FALSE, 0)), answer |-> NoAnswer]
    /\ UNCHANGED <<authVars, serverVars, pw, ui>>

\* a plausible slip: a pool that opens a connection for every request
Acquire_Unbounded(k) ==
    /\ k \in Waiting
    /\ pool' = [req |-> Enters(Leaves(pool.req, k), Runs(k.ran)), answer |-> NoAnswer]
    /\ UNCHANGED <<authVars, serverVars, pw, ui>>

\* Pool::acquire hands a connection to a waiting request
Acquire(k) ==
    /\ k \in Waiting
    /\ InUse < PoolMax
    /\ pool' = [req |-> Enters(Leaves(pool.req, k), Runs(k.ran)), answer |-> NoAnswer]
    /\ UNCHANGED <<authVars, serverVars, pw, ui>>

\* the statement ends and its connection goes back to the pool; the
\* handler ends with the statement's error, or with its response after its
\* last statement, or asks the pool again for its next statement
Execute(k, ok, more) ==
    /\ k.pc = "running" /\ pool.req[k] > 0
    /\ IF ~ok
       THEN LET resp == into_response("Database", "error returned from database") IN
            pool' = [req |-> Leaves(pool.req, k),
                     answer |-> [status |-> resp.status, message |-> resp.message,
                                 ran |-> k.ran, waited |-> 0]]
       ELSE IF ~more
       THEN pool' = [req |-> Leaves(pool.req, k),
                     answer |-> [status |-> 200, message |-> "", ran |-> TRUE, waited |-> 0]]
       ELSE pool' = [req |-> Enters(Leaves(pool.req, k), Waits(TRUE, 0)),
                     answer |-> NoAnswer]
    /\ UNCHANGED <<authVars, serverVars, pw, ui>>

\* a second passes while every connection is checked out
PoolTick ==
    /\ Waiting # {}
    /\ InUse = PoolMax
    /\ \A k \in Waiting : k.waited < AcquireTimeout
    /\ pool' = [req |-> [k \in Stands |->
                            IF k.pc # "waiting" THEN pool.req[k]
                            ELSE IF k.waited = 0 THEN 0
                            ELSE pool.req[Waits(k.ran, k.waited - 1)]],
                answer |-> NoAnswer]
    /\ UNCHANGED <<authVars, serverVars, pw, ui>>

\* acquire_timeout: sqlx::Error::PoolTimedOut becomes AppError::Database
PoolTimedOut(k) ==
    /\ k \in Waiting
    /\ k.waited = AcquireTimeout
    /\ LET resp == into_response("Database", "pool timed out while waiting for an open connection")
       IN pool' = [req |-> Leaves(pool.req, k),
                   answer |-> [status |-> resp.status, message |-> resp.message,
                               ran |-> k.ran, waited |-> k.waited]]
    /\ UNCHANGED <<authVars, serverVars, pw, ui>>

PoolNext ==
    \/ PoolArrive
    \/ \E k \in Stands : Acquire(k)
    \/ \E k \in Stands, ok \in BOOLEAN, more \in BOOLEAN : Execute(k, ok, more)
    \/ PoolTick
    \/ \E k \in Stands : PoolTimedOut(k)

SpecPool == Init /\ [][PoolNext]_vars

\* C20 (as stated): a request checks out one connection for the duration
\* of its queries: once it has run a statement it holds a connection
\* until it completes or fails.
C20_OneConnectionPerRequest ==
    \A k \in Stands : (k.pc = "waiting" /\ k.ran) => pool.req[k] = 0

\* C20 (amended): each statement checks out one connection and returns it
\* when it ends, so that an answered request holds none and a request
\* between two statements holds none; at most PoolMax connections are
\* checked out; no request waits past the acquire timeout, and the one
\* whose wait reaches it is answered 500 with the generic store message.
C20_PoolBoundAndTimeout ==
    [][LET after == pool'
           inUse == Total(after.req, {k \in Stands : k.pc = "running"})
           waits == Total(after.req, {k \in Stands : k.pc = "waiting"})
       IN
       /\ inUse <= PoolMax
       /\ inUse + waits = Total(after.req, Stands)
       /\ after.answer.status # 0 =>
            (inUse + waits = InFlight - 1 /\ inUse <= InUse)
       \* the step in which a second passes
       /\ (inUse + waits = InFlight /\ inUse = InUse /\ after # pool) =>
            \A k \in Waiting : k.waited < AcquireTimeout
       /\ after.answer.waited = AcquireTimeout =>
            (/\ after.answer.status = 500
             /\ after.answer.message = "Database error occurred")]_vars

\* a request that had run a statement waited AcquireTimeout seconds for
\* the connection of its next one and was answered 500
C20_Witness ==
    /\ pool.answer.status = 500 /\ pool.answer.waited = AcquireTimeout
    /\ pool.answer.ran
    /\ InUse = PoolMax

\* ------------------------------------------------------------------------
\* SpecQuery: the read paths over the rows a store can hold
\* ------------------------------------------------------------------------
\* user 2 has a second category
QueryCategories == InitialCategories \cup {CategoryRow(3, 2, "Rent", None, None)}

\* expenses of last month, of this month and of next month; two of the
\* same day; one of user 1
QueryExpenses ==
    InitialExpenses \cup
    {ExpenseRow(2, 2, 3, 700, "rent", Date(2024, 1, 20), -4),
     ExpenseRow(3, 2, 2, 300, "bus", Date(2024, 3, 1), -1),
     ExpenseRow(4, 1, 1, 900, "book", Date(2024, 2, 3), -3),
     ExpenseRow(5, 2, 2, 100, "gum", Date(2024, 2, 3), -2)}

\* the query strings of GET /api/expenses: each filter present or absent
ListExpensesInputs ==
    {Input(0, [NoPayload EXCEPT !.start_date = s, !.end_date = e, !.category_id = c]) :
        s \in {None, Some(Date(2024, 1, 20))},
        e \in {None, Some(Date(2024, 2, 3))},
        c \in {None, Some(2), Some(3)}}

\* the tokens the server minted for the two users
UserHeaders == {Bearer(create_jwt(u, ConfigSecret, ConfigHours, 0)) : u \in UserIds}

QueryInit ==
    /\ now = 0
    /\ held = NoToken
    /\ last = NoEval
    /\ envSecret = ConfigSecret
    /\ categories = QueryCategories
    /\ expenses \in SUBSET QueryExpenses
    /\ nextCatId = 4
    /\ slots = [r \in Slots |-> IdleSlot]
    /\ reply = IdleSlot
    /\ issued = 0
    /\ users = UserRows
    /\ nextUserId = 3
    /\ pw = NoCheck
    /\ pool = IdlePool
    /\ ui = NoPage

QueryNext ==
    \/ \E r \in FreeSlot, h \in UserHeaders, input \in ListExpensesInputs :
            list_expenses(r, h, input)
    \/ \E r \in FreeSlot, h \in UserHeaders : get_category_summary(r, h)

SpecQuery == QueryInit /\ [][QueryNext]_vars

\* ------------------------------------------------------------------------
\* Read paths: claims
\* ------------------------------------------------------------------------
\* the rows of a listing
Listed(rows) == {rows[i] : i \in 1..Len(rows)}

\* C21: list_expenses returns exactly the caller's expenses that satisfy
\* the condition of every filter present (from start_date on, up to
\* end_date, of category_id), for each of the eight combinations of
\* filters, most recent expense_date first and, within a date, most
\* recent created_at first.
C21_ListExpensesFilters ==
    (Answered /\ reply.route = "list_expenses" /\ reply.gate.ok) =>
        LET q == reply.payload
            rows == reply.resp.rows
            wanted == {e \in expenses :
                        /\ e.user_id = reply.subject
                        /\ IsSome(q.start_date) => DateGE(e.expense_date, Unwrap(q.start_date))
                        /\ IsSome(q.end_date) => DateGE(Unwrap(q.end_date), e.expense_date)
                        /\ IsSome(q.category_id) => e.category_id = Unwrap(q.category_id)}
        IN  /\ reply.resp.status = 200
            /\ Listed(rows) = wanted
            /\ Len(rows) = Cardinality(wanted)
            /\ \A i \in 1..Len(rows), j \in 1..Len(rows) : i < j =>
                    /\ DateGE(rows[i].expense_date, rows[j].expense_date)
                    /\ rows[i].expense_date = rows[j].expense_date =>
                            rows[i].created_at >= rows[j].created_at

\* all three filters were sent and two expenses of one day were listed,
\* while the store held expenses outside the range and the category
C21_Witness ==
    /\ Answered /\ reply.route = "list_expenses" /\ reply.gate.ok
    /\ IsSome(reply.payload.start_date) /\ IsSome(reply.payload.end_date)
    /\ IsSome(reply.payload.category_id)
    /\ Len(reply.resp.rows) = 2
    /\ reply.resp.rows[1].created_at > reply.resp.rows[2].created_at
    /\ expenses = QueryExpenses

\* C22 (as stated): get_category_summary returns one row for every
\* category of the caller, and the total and the count of a row are the
\* sum and the number of that category's expenses dated within the
\* current calendar month, expenses of earlier and of later months left
\* out.
C22_SummaryOfCurrentMonth ==
    (Answered /\ reply.route = "get_category_summary" /\ reply.gate.ok) =>
        LET today == Today(reply.at)
            mine == {c \in categories : c.user_id = reply.subject}
            of(c) == {e \in expenses : /\ e.category_id = c.id
                                        /\ e.expense_date.year = today.year
                                        /\ e.expense_date.month = today.month}
        IN  reply.resp.body = {[category_id |-> c.id, category_name |-> c.name,
                                total_amount |-> SumAmounts(of(c)),
                                expense_count |-> Cardinality(of(c))] : c \in mine}

\* ------------------------------------------------------------------------
\* SpecRaces: the writers of users, categories and expenses, interleaved
\* ------------------------------------------------------------------------
\* user 2 has two categories and an expense in the first of them
RacesInit ==
    /\ now = 0
    /\ held = NoToken
    /\ last = NoEval
    /\ envSecret = ConfigSecret
    /\ categories = QueryCategories
    /\ expenses = InitialExpenses
    /\ nextCatId = 4
    /\ slots = [r \in Slots |-> IdleSlot]
    /\ reply = IdleSlot
    /\ issued = 0
    /\ users = UserRows
    /\ nextUserId = 3
    /\ pw = NoCheck
    /\ pool = IdlePool
    /\ ui = NoPage

RacesNext ==
    \/ \E r \in FreeSlot, input \in RegisterInputs : register(r, input)
    \/ \E r \in Slots, salt \in SaltValues : register_insert(r, salt)
    \/ \E r \in FreeSlot, h \in UserHeaders, input \in CreateCategoryInputs :
            create_category(r, h, input)
    \/ \E r \in Slots : create_category_insert(r)
    \/ \E r \in FreeSlot, h \in UserHeaders, input \in UpdateCategoryInputs :
            update_category(r, h, input)
    \/ \E r \in Slots : update_category_name(r)
    \/ \E r \in Slots : update_category_update(r)
    \/ \E r \in Slots : update_category_reread(r)
    \/ \E r \in FreeSlot, h \in UserHeaders, input \in CategoryIdInputs :
            delete_category(r, h, input)
    \/ \E r \in Slots : delete_category_delete(r)
    \/ \E r \in FreeSlot, h \in UserHeaders, input \in CreateExpenseInputs :
            create_expense(r, h, input)
    \/ \E r \in Slots : create_expense_insert(r)
    \/ \E r \in FreeSlot, h \in UserHeaders, input \in UpdateExpenseInputs :
            update_expense(r, h, input)
    \/ \E r \in Slots : update_expense_category(r)
    \/ \E r \in Slots : update_expense_update(r)
    \/ \E r \in Slots : update_expense_reread(r)

SpecRaces == RacesInit /\ [][RacesNext]_vars

\* ------------------------------------------------------------------------
\* Interleaved writers: claims
\* ------------------------------------------------------------------------
\* every expense row refers to a category row of the same user
ExpensesHaveCategories(exps, cats) ==
    \A e \in exps : \E c \in cats : c.id = e.category_id /\ c.user_id = e.user_id

\* C27: under any interleaving of create_expense, update_expense and
\* delete_category, every stored expense refers to a category that exists
\* and has the owner of the expense; no step removes a category that has
\* expenses; and a delete_category refused with "Cannot delete category
\* with existing expenses" leaves the store as it was.
C27_ExpensesKeepTheirCategory ==
    /\ ExpensesHaveCategories(expenses, categories)
    /\ [][LET cats == categories'
               exps == expenses'
               answer == reply'
           IN
           /\ ExpensesHaveCategories(exps, cats)
           /\ \A c \in categories :
                (\A c2 \in cats : c2.id # c.id) =>
                    ~\E e \in expenses \cup exps : e.category_id = c.id
           /\ (answer.pc = "done" /\ answer.route = "delete_category"
                    /\ answer.resp.message = "Cannot delete category with existing expenses") =>
                (cats = categories /\ exps = expenses)]_vars

\* the store refused the delete of a category into which an update had
\* moved an expense after delete_category had found the category empty
C27_Witness ==
    /\ Answered /\ reply.route = "delete_category" /\ reply.resp.status = 500
    /\ \E e \in expenses : e.category_id = reply.id /\ e.user_id = reply.subject
    /\ \E e \in InitialExpenses : e.category_id # reply.id

\* no two user rows have the same email
UniqueEmails(rows) == \A u1 \in rows, u2 \in rows : u1.email = u2.email => u1.id = u2.id

\* the write of the request in slot r meets a row that another request
\* wrote or that was there before
LosesRace(rq) ==
    \/ rq.pc = "register_insert" /\ \E u \in users : u.email = Unwrap(rq.payload.email)
    \/ rq.pc = "create_category_insert"
            /\ CategoryNameExists(rq.subject, Unwrap(rq.payload.name))
    \/ rq.pc = "update_category_update" /\ IsSome(rq.payload.name)
            /\ CategoryNameExistsElsewhere(rq.subject, Unwrap(rq.payload.name), rq.id)
            /\ CategoryExists(rq.id, rq.subject)

\* C28: under any interleaving of register, create_category and
\* update_category, no two users have the same email and no user has two
\* categories of the same name; a write that meets the email or the name
\* it was about to store ends in an error and leaves the users and the
\* categories as they were.
C28_UniqueEmailsAndNames ==
    /\ UniqueEmails(users) /\ UniqueNames(categories)
    /\ [][LET cats == categories'
               accounts == users'
               answer == reply'
           IN
           /\ UniqueEmails(accounts)
           /\ UniqueNames(cats)
           /\ \A r \in Slots :
                (LosesRace(slots[r]) /\ slots'[r] # slots[r]) =>
                    /\ answer.pc = "done" /\ answer.resp.status >= 400
                    /\ cats = categories /\ accounts = users]_vars

\* two registrations of one email were in flight together: the first
\* stored the user, the second ended in an error
C28_Witness ==
    /\ Answered /\ reply.route = "register" /\ reply.resp.status = 500
    /\ Cardinality({u \in users : u.email = Unwrap(reply.payload.email)}) = 1
    /\ Cardinality(users) = 3

\* ------------------------------------------------------------------------
\* SpecFrontend: the page in the browser
\* ------------------------------------------------------------------------
\* the user at the browser, and the token the server mints for them
Visitor == 2
VisitorToken == create_jwt(Visitor, ConfigSecret, ConfigHours, 0)

\* a sequence without its i-th element
Without(seq, i) == SubSeq(seq, 1, i - 1) \o SubSeq(seq, i + 1, Len(seq))

\* a call of the api module by a task of the effect: the request, awaiting
\* the server's answer and then its delivery to the task
Call(name, query) == [pc |-> name, query |-> query, answered |-> FALSE, rows |-> {}]

\* the requests the page has started and that have not yet come back
Outstanding(page) ==
    Len(page.reloads) + Len(page.deletes) + (IF page.auth_request = "none" THEN 0 ELSE 1)

\* the runs of the effect still possible: those already made, and one for
\* each delete_expense that may come back Ok
CanReload(page) ==
    page.effects + Cardinality({j \in 1..Len(page.deletes) : page.deletes[j].live}) < MaxReloads

\* the effect of Dashboard: a run marks the page as loading, clears the
\* error and spawns a task, which starts with list_categories; without a
\* token that call and every later one fail at once ("No token found") and
\* the task runs to its end
Effect(page) ==
    LET marked == [page EXCEPT !.loading = TRUE, !.error = FALSE, !.effects = @ + 1]
    IN  IF marked.token = None
        THEN [marked EXCEPT !.error = TRUE, !.loading = FALSE]
        ELSE [marked EXCEPT !.reloads = Append(@, Call("list_categories", NoFilters))]

\* task i goes on to its next call: sent with the token of local storage,
\* or, without one, failed at once together with the calls after it
Resume(page, i, name, query) ==
    IF page.token = None
    THEN [page EXCEPT !.error = TRUE, !.loading = FALSE, !.reloads = Without(@, i)]
    ELSE [page EXCEPT !.reloads[i] = Call(name, query)]

\* Dashboard is mounted: its signals are created and the effect runs for
\* the first time. The requests of an earlier Dashboard no longer reach it
Dashboard(page) ==
    Effect([page EXCEPT !.loading = TRUE, !.error = FALSE, !.filters = NoFilters,
                        !.shown = {}, !.reloads = <<>>])

\* Auth is mounted; the scope of Dashboard is disposed: its tasks no
\* longer reach a signal, the requests already sent still reach the server
Auth(page) ==
    [page EXCEPT !.is_login = TRUE, !.auth_loading = FALSE, !.auth_error = FALSE,
                 !.auth_request = "none",
                 !.loading = TRUE, !.error = FALSE, !.filters = NoFilters, !.shown = {},
                 !.reloads = <<>>,
                 !.deletes = [j \in 1..Len(@) |-> [@[j] EXCEPT !.live = FALSE]]]

\* App: is_authenticated starts as get_token().is_some() and chooses the
\* component shown
App(token) ==
    LET page == [NoPage EXCEPT !.token = token, !.is_authenticated = (token # None)]
    IN  IF page.is_authenticated THEN Dashboard(page) ELSE Auth(page)

\* the link under the form of Auth: switches between Login and Register
toggle_is_login ==
    /\ ~ui.is_authenticated
    /\ ui' = [ui EXCEPT !.is_login = ~@, !.auth_error = FALSE]
    /\ UNCHANGED <<authVars, serverVars, pw, pool>>

\* Auth's handle_submit: the button is disabled while loading
handle_submit ==
    /\ ~ui.is_authenticated
    /\ ~ui.auth_loading
    /\ CanReload(ui)
    /\ ui' = [ui EXCEPT !.auth_error = FALSE, !.auth_loading = TRUE,
                        !.auth_request = IF ui.is_login THEN "login" ELSE "register"]
    /\ UNCHANGED <<authVars, serverVars, pw, pool>>

\* the task of handle_submit after login or register came back: ok when
\* the response was a success and its body an AuthResponse, in which case
\* the api has stored the token (set_token) and on_auth sets
\* is_authenticated to true
Submitted(page, ok) ==
    LET back == [page EXCEPT !.auth_request = "none", !.auth_loading = FALSE] IN
    IF ok
    THEN Dashboard([back EXCEPT !.token = Some(VisitorToken), !.is_authenticated = TRUE])
    ELSE [back EXCEPT !.auth_error = TRUE]

\* api::login comes back
api_login(ok) ==
    /\ ui.auth_request = "login"
    /\ ui' = Submitted(ui, ok)
    /\ UNCHANGED <<authVars, serverVars, pw, pool>>

\* api::register comes back
api_register(ok) ==
    /\ ui.auth_request = "register"
    /\ ui' = Submitted(ui, ok)
    /\ UNCHANGED <<authVars, serverVars, pw, pool>>

\* Dashboard's handle_logout: clear_token, then on_logout. App hands
\* Dashboard a closure that sets is_authenticated to false; Dashboard
\* declares on_logout as a WriteSignal<bool> and sets it to true. The two
\* sites do not fit one another, and whichever is adapted to the other the
\* signal of App receives one of the two values
handle_logout(value) ==
    /\ ui.is_authenticated
    /\ LET cleared == [ui EXCEPT !.token = None, !.is_authenticated = value]
       IN  ui' = IF value THEN cleared ELSE Auth(cleared)
    /\ UNCHANGED <<authVars, serverVars, pw, pool>>

\* the filters and the rows with their Delete buttons are rendered only
\* while Dashboard is not loading
Rendered(page) == page.is_authenticated /\ ~page.loading

\* the on:change handler of the category filter: sets the filter and bumps
\* reload_data, which runs the effect
set_filter_category(value) ==
    /\ Rendered(ui)
    /\ CanReload(ui)
    /\ ui' = Effect([ui EXCEPT !.filters.category_id = value])
    /\ UNCHANGED <<authVars, serverVars, pw, pool>>

\* the on:change handler of the start date filter
set_filter_start_date(value) ==
    /\ Rendered(ui)
    /\ CanReload(ui)
    /\ ui' = Effect([ui EXCEPT !.filters.start_date = value])
    /\ UNCHANGED <<authVars, serverVars, pw, pool>>

\* the on:change handler of the end date filter
set_filter_end_date(value) ==
    /\ Rendered(ui)
    /\ CanReload(ui)
    /\ ui' = Effect([ui EXCEPT !.filters.end_date = value])
    /\ UNCHANGED <<authVars, serverVars, pw, pool>>

\* Dashboard's handle_delete, from the Delete button of a row shown:
\* spawns a task that calls delete_expense
handle_delete(id) ==
    /\ Rendered(ui)
    /\ \E e \in ui.shown : e.id = id
    /\ CanReload(ui)
    /\ ui' = IF ui.token = None
             THEN [ui EXCEPT !.error = TRUE]
             ELSE [ui EXCEPT !.deletes = Append(@, [id |-> id, live |-> TRUE,
                                                    answered |-> FALSE, ok |-> FALSE])]
    /\ UNCHANGED <<authVars, serverVars, pw, pool>>

\* the server answers the GET /api/expenses of task i
serve_list_expenses(i) ==
    /\ ui.reloads[i].pc = "list_expenses"
    /\ ~ui.reloads[i].answered
    /\ LET query == ui.reloads[i].query
           found == ListExpensesRows(ListExpensesSql(query),
                                     ListExpensesBinds(Visitor, query))
       IN  ui' = [ui EXCEPT !.reloads[i].answered = TRUE, !.reloads[i].rows = found]
    /\ UNCHANGED <<authVars, serverVars, pw, pool>>

\* the server answers the j-th DELETE /api/expenses/{id} in flight
serve_delete_expense(j) ==
    /\ ~ui.deletes[j].answered
    /\ LET gone == {e \in expenses : e.id = ui.deletes[j].id /\ e.user_id = Visitor}
       IN  /\ expenses' = expenses \ gone
           /\ ui' = [ui EXCEPT !.deletes[j].answered = TRUE, !.deletes[j].ok = (gone # {})]
    /\ UNCHANGED <<authVars, categories, nextCatId, slots, reply, issued, users, nextUserId,
                   pw, pool>>

\* the task of handle_delete after delete_expense came back: Ok bumps
\* reload_data, which runs the effect
api_delete_expense(j) ==
    /\ ui.deletes[j].answered
    /\ LET back == [ui EXCEPT !.deletes = Without(@, j)]
       IN  ui' = IF ~ui.deletes[j].live THEN back
                 ELSE IF ui.deletes[j].ok THEN Effect(back)
                 ELSE [back EXCEPT !.error = TRUE]
    /\ UNCHANGED <<authVars, serverVars, pw, pool>>

\* task i after list_categories came back: reads the three filters and
\* calls list_expenses with them
api_list_categories(i) ==
    /\ ui.reloads[i].pc = "list_categories"
    /\ ui' = Resume(ui, i, "list_expenses", ui.filters)
    /\ UNCHANGED <<authVars, serverVars, pw, pool>>

\* task i after list_expenses came back: shows the rows it received and
\* calls get_monthly_summary
api_list_expenses(i) ==
    /\ ui.reloads[i].pc = "list_expenses"
    /\ ui.reloads[i].answered
    /\ ui' = Resume([ui EXCEPT !.shown = ui.reloads[i].rows], i,
                    "get_monthly_summary", NoFilters)
    /\ UNCHANGED <<authVars, serverVars, pw, pool>>

\* task i after get_monthly_summary came back: calls get_category_summary
api_get_monthly_summary(i) ==
    /\ ui.reloads[i].pc = "get_monthly_summary"
    /\ ui' = Resume(ui, i, "get_category_summary", NoFilters)
    /\ UNCHANGED <<authVars, serverVars, pw, pool>>

\* task i after get_category_summary came back: set_loading(false), and
\* the task ends
api_get_category_summary(i) ==
    /\ ui.reloads[i].pc = "get_category_summary"
    /\ ui' = [ui EXCEPT !.loading = FALSE, !.reloads = Without(@, i)]
    /\ UNCHANGED <<authVars, serverVars, pw, pool>>

\* the values a filter's change event can carry. The filters are created
\* anew, showing no selection, whenever loading turns false, and a run of
\* the effect removes them: the one change made to such an element is to a
\* category of the user or to a date
FilterCategories == {Some(2), Some(3)}
FilterStartDates == {Some(Date(2024, 2, 1))}
FilterEndDates == {Some(Date(2024, 2, 3))}

FrontendInit ==
    /\ now = 0
    /\ held = NoToken
    /\ last = NoEval
    /\ envSecret = ConfigSecret
    /\ categories = QueryCategories
    /\ expenses = QueryExpenses
    /\ nextCatId = 4
    /\ slots = [r \in Slots |-> IdleSlot]
    /\ reply = IdleSlot
    /\ issued = 0
    /\ users = UserRows
    /\ nextUserId = 3
    /\ pw = NoCheck
    /\ pool = IdlePool
    /\ ui \in {App(token) : token \in {None, Some(VisitorToken)}}

FrontendNext ==
    \/ toggle_is_login
    \/ handle_submit
    \/ \E ok \in BOOLEAN : api_login(ok)
    \/ \E ok \in BOOLEAN : api_register(ok)
    \/ \E value \in BOOLEAN : handle_logout(value)
    \/ \E value \in FilterCategories : set_filter_category(value)
    \/ \E value \in FilterStartDates : set_filter_start_date(value)
    \/ \E value \in FilterEndDates : set_filter_end_date(value)
    \/ \E e \in expenses : handle_delete(e.id)
    \/ \E i \in 1..Len(ui.reloads) : serve_list_expenses(i)
    \/ \E j \in 1..Len(ui.deletes) : serve_delete_expense(j)
    \/ \E j \in 1..Len(ui.deletes) : api_delete_expense(j)
    \/ \E i \in 1..Len(ui.reloads) : api_list_categories(i)
    \/ \E i \in 1..Len(ui.reloads) : api_list_expenses(i)
    \/ \E i \in 1..Len(ui.reloads) : api_get_monthly_summary(i)
    \/ \E i \in 1..Len(ui.reloads) : api_get_category_summary(i)

SpecFrontend == FrontendInit /\ [][FrontendNext]_vars

\* ------------------------------------------------------------------------
\* The page: claims
\* ------------------------------------------------------------------------
\* the server's answer to GET /api/expenses with the filters selected
Answer(filters) ==
    ListExpensesRows(ListExpensesSql(filters), ListExpensesBinds(Visitor, filters))

\* C29: while Dashboard is shown to a user with a token, once every fetch
\* has completed (no task of the effect and no delete is outstanding) the
\* expenses displayed are the server's answer for the filters selected
\* last, and loading is false only when no task of the effect is still in
\* flight
C29_ReloadsSettle ==
    (ui.is_authenticated /\ ui.token # None) =>
        /\ (ui.reloads = <<>> /\ ui.deletes = <<>>) => ui.shown = Answer(ui.filters)
        /\ ~ui.loading => ui.reloads = <<>>

\* C30: with no request in flight App shows Dashboard exactly when a token
\* is stored; an attempt to log in or register that comes back either
\* stores a token and shows Dashboard, or leaves the token and the Auth
\* view as they were; a token is stored by nothing else; Logout removes
\* the token and shows Auth
C30_DashboardIffToken ==
    /\ [](Outstanding(ui) = 0 => (ui.is_authenticated <=> ui.token # None))
    /\ [][LET page == ui' IN
          /\ (ui.auth_request # "none" /\ page.auth_request = "none") =>
                \/ page.token # None /\ page.is_authenticated
                \/ page.token = ui.token /\ ~page.is_authenticated
          /\ (page.token # ui.token /\ page.token # None) =>
                (ui.auth_request # "none" /\ page.is_authenticated)
          /\ (ui.is_authenticated /\ page.token # ui.token) =>
                (page.token = None /\ ~page.is_authenticated)]_vars

\* ------------------------------------------------------------------------
\* SpecAuth: the codec and the gate
\* ------------------------------------------------------------------------
AuthInit ==
    /\ now = 0
    /\ held = NoToken
    /\ last = NoEval
    /\ envSecret \in Secrets \cup {NoSecret}
    /\ categories = InitialCategories
    /\ expenses = InitialExpenses
    /\ nextCatId = 3
    /\ slots = [r \in Slots |-> IdleSlot]
    /\ reply = IdleSlot
    /\ issued = 0
    /\ users = UserRows
    /\ nextUserId = 3
    /\ pw = NoCheck
    /\ pool = IdlePool
    /\ ui = NoPage

\* a handler mints a token for a user (login, register); the client keeps it
Mint(u, k, h) ==
    /\ now \in MintTimes
    /\ held' = create_jwt(u, k, h, now)
    /\ last' = NoEval
    /\ UNCHANGED <<now, envSecret, serverVars, unitVars>>

\* decode_jwt applied to a presented token
Decode(tk, k) ==
    /\ last' = [NoEval EXCEPT !.op = "decode", !.token = tk, !.secret = k, !.at = now,
                              !.decoded = decode_jwt(tk, k, now)]
    /\ UNCHANGED <<now, held, envSecret, serverVars, unitVars>>

\* the gate applied to a request's Authorization header
Gate(h) ==
    /\ last' = [NoEval EXCEPT !.op = "gate", !.header = h, !.token = h.token,
                              !.secret = envSecret, !.at = now,
                              !.outcome = from_request_parts(h, envSecret, now)]
    /\ UNCHANGED <<now, held, envSecret, serverVars, unitVars>>

AuthNext ==
    \/ \E u \in UserIds, k \in Secrets, h \in 1..MaxHours : Mint(u, k, h)
    \/ Advance
    \/ \E tk \in Presentable, k \in Secrets : Decode(tk, k)
    \/ \E tk \in Presentable : Gate(Bearer(tk))
    \/ \E h \in {NoHeader, BasicHeader} : Gate(h)

\* ------------------------------------------------------------------------
\* Token codec and gate: claims
\* ------------------------------------------------------------------------
\* condition (a) of the validity rule: a structurally sound HS256 token
\* whose signature is the MAC of its header and payload under the secret
SignedUnder(token, secret) ==
    /\ token.segments = 3
    /\ token.alg = "HS256"
    /\ SignatureVerifies(token, secret)

\* C1 (as stated): decode_jwt accepts a token if and only if its signature
\* verifies under the secret and now < expiresAt; a token presented at an
\* instant now >= expiresAt is rejected.
C1_ValidIffSignedAndBeforeExpiry ==
    last.op = "decode" =>
        (last.decoded.ok <=> (SignedUnder(last.token, last.secret) /\ last.at < last.token.exp))

\* C2 (as stated): decode_jwt(create_jwt(s, k, h), k) returns the subject s
\* when called before the expiry instant and fails with Expired when
\* called after it.
C2_RoundTripUntilExpiry ==
    (last.op = "decode" /\ last.token = held /\ last.secret = held.sig.key) =>
        /\ last.at < held.exp => (last.decoded.ok /\ last.decoded.sub = held.sub)
        /\ last.at > held.exp => (~last.decoded.ok /\ last.decoded.err = "ExpiredSignature")

\* C3: a token minted by create_jwt under k2, decoded under k1 # k2, fails
\* with InvalidSignature and yields no claims, whatever its subject and
\* expiry.
C3_WrongSecretIsInvalidSignature ==
    (last.op = "decode" /\ last.token = held /\ last.secret # held.sig.key) =>
        (~last.decoded.ok /\ last.decoded.err = "InvalidSignature")

\* the wrong-key decode of a minted token that has also expired
C3_Witness ==
    /\ last.op = "decode" /\ last.token = held /\ last.secret # held.sig.key
    /\ last.at > held.exp + Leeway
    /\ last.decoded.err = "InvalidSignature"

\* C4: the gate checks bearer header, secret, token, subject in this order
\* and ends in the rejection of the first check that fails; no bearer
\* header is 401 even without a secret, a bearer header without a secret
\* is 500 whatever the token, and Authenticated needs all four checks.
C4_GateOrder ==
    last.op = "gate" =>
        LET d == decode_jwt(last.header.token, last.secret, last.at) IN
        /\ last.header.scheme # "Bearer" =>
               last.outcome = Rejected(401, "Missing authorization header")
        /\ (last.header.scheme = "Bearer" /\ last.secret = NoSecret) =>
               last.outcome = Rejected(500, "JWT secret not configured")
        /\ (last.header.scheme = "Bearer" /\ last.secret # NoSecret /\ ~d.ok) =>
               (~last.outcome.ok /\ last.outcome.status = 401
                    /\ last.outcome.message = "Invalid or expired token")
        /\ (last.header.scheme = "Bearer" /\ last.secret # NoSecret /\ d.ok
                /\ ParseUuid(d.sub) = NoUser) =>
               last.outcome = Rejected(401, "Invalid user ID in token")
        /\ last.outcome.ok =>
               (/\ last.header.scheme = "Bearer" /\ last.secret # NoSecret /\ d.ok
                /\ ParseUuid(d.sub) # NoUser
                /\ last.outcome = Authenticated(ParseUuid(d.sub)))

\* a request without a bearer header met the gate while no secret is set
C4_Witness ==
    /\ last.op = "gate" /\ last.header.scheme # "Bearer" /\ last.secret = NoSecret
    /\ last.outcome.status = 401

\* C5: whichever way the token decode fails (malformed, signature,
\* algorithm, expired), the gate answers 401 with the one message.
C5_OneRejectionForEveryDecodeFailure ==
    (last.op = "gate" /\ last.header.scheme = "Bearer" /\ last.secret # NoSecret
        /\ ~decode_jwt(last.header.token, last.secret, last.at).ok) =>
        last.outcome = Rejected(401, "Invalid or expired token")

\* the gate turned away a correctly signed token because it had expired
C5_Witness ==
    /\ last.op = "gate" /\ last.header.scheme = "Bearer" /\ last.secret # NoSecret
    /\ decode_jwt(last.header.token, last.secret, last.at).err = "ExpiredSignature"
    /\ last.outcome.status = 401

SpecAuth == AuthInit /\ [][AuthNext]_vars

====
